---------------------------- MODULE Spec2Model ----------------------------
(***************************************************************************)
(* Verification model of the value-range analysis                          *)
(* (torch/utils/_sympy/value_ranges.py), of gradcheck                      *)
(* (torch/autograd/gradcheck.py) and of the higher-order control-flow ops  *)
(* (torch/_higher_order_ops/scan.py, cudagraph_conditional_nodes.py).      *)
(*                                                                         *)
(* Each subsystem has its own variables and its own specification; the     *)
(* variables of the other subsystems stay at their idle values.            *)
(***************************************************************************)
EXTENDS Integers, Sequences, FiniteSets, TLC

VARIABLES
    vr_op,      \* value ranges: name of the rule applied last ("init" before any)
    vr_a,       \* value ranges: first operand (a ValueRanges object)
    vr_b,       \* value ranges: second operand (a ValueRanges object)
    vr_res      \* value ranges: what the rule returned, or the exception it raised

vrVars == <<vr_op, vr_a, vr_b, vr_res>>

VARIABLES
    nj_pc,      \* get_numerical_jacobian: position in the function
    nj_x,       \* the storage of each tensor of input, flattened
    nj_x0,      \* the values the tensors held when the function was called
    nj_req,     \* requires_grad of each tensor
    nj_contig,  \* is_contiguous() of each tensor
    nj_target,  \* TRUE when the caller passed target (the tensors of input)
    nj_eps,     \* eps
    nj_k,       \* index into x_tensors of the tensor being processed
    nj_i,       \* index i into flat_tensor
    nj_orig,    \* the local orig
    nj_outa,    \* the local outa
    nj_jac      \* jacobian: one row per entry of each tensor of x_tensors

njVars == <<nj_pc, nj_x, nj_x0, nj_req, nj_contig, nj_target, nj_eps,
            nj_k, nj_i, nj_orig, nj_outa, nj_jac>>

VARIABLES
    gc_pc,        \* gradcheck: position in the function
    gc_raise,     \* raise_exception
    gc_atol,      \* atol
    gc_rtol,      \* rtol
    gc_in,        \* numel of each tensor of diff_input_list
    gc_out,       \* numel of each differentiable output of func(*inputs)
    gc_i,         \* index i of the output being checked
    gc_seed,      \* get_analytical_jacobian: index of the one-hot seed
    gc_run,       \* get_analytical_jacobian: 1 = jacobian, 2 = jacobian_reentrant
    gc_jac,       \* jacobian (analytical), one matrix per input
    gc_jac_re,    \* jacobian_reentrant, one matrix per input
    gc_sizes,     \* correct_grad_sizes
    gc_reentrant, \* reentrant
    gc_num,       \* numerical, one matrix per input
    gc_grads,     \* grads_input of the grad call with zero grad_outputs
    gc_result     \* what gradcheck returned or raised

gcVars == <<gc_pc, gc_raise, gc_atol, gc_rtol, gc_in, gc_out, gc_i, gc_seed,
            gc_run, gc_jac, gc_jac_re, gc_sizes, gc_reentrant, gc_num,
            gc_grads, gc_result>>

VARIABLES
    sc_pc,      \* scan: position in scan and generic_scan
    sc_fn,      \* combine_fn
    sc_input,   \* input: the leaves, each a tensor of one dimension
    sc_reverse, \* reverse
    sc_elems,   \* generic_scan: elems, the leaves scan handed to scan_op
    sc_ind,     \* generic_scan: ind
    sc_xs,      \* generic_scan: xs
    sc_outs,    \* generic_scan: outs
    sc_calls,   \* the values of ind at the calls of operator, in order
    sc_result   \* what scan returned

scVars == <<sc_pc, sc_fn, sc_input, sc_reverse, sc_elems, sc_ind, sc_xs,
            sc_outs, sc_calls, sc_result>>

VARIABLES
    wl_pc,       \* while_loop_node: position (capture, then replay of the graph)
    wl_is_tuple, \* isinstance(carried_inputs, tuple)
    wl_pred,     \* per call of cond_fn: what it returned
    wl_limit,    \* cond_fn is carried[0] < limit
    wl_body,     \* body_fn
    wl_vals0,    \* the values of carried_inputs at the call
    wl_vals,     \* the values the tensors of carried_vals hold
    wl_handle,   \* the value of the conditional handle of the while node
    wl_count,    \* executions of the body of the while node
    wl_err,      \* the exception raised, "" if none
    wl_log       \* the calls made by while_loop_node, in order

wlVars == <<wl_pc, wl_is_tuple, wl_pred, wl_limit, wl_body, wl_vals0,
            wl_vals, wl_handle, wl_count, wl_err, wl_log>>

VARIABLES
    ie_pc,      \* if_else_node: position (capture, then replay of the graph)
    ie_is_cuda, \* pred.is_cuda
    ie_pred,    \* the value pred holds when the graph is replayed
    ie_true,    \* true_fn
    ie_false,   \* false_fn
    ie_ops,     \* the values of operands
    ie_outs0,   \* the values held by the tensors of outs[0], which are returned
    ie_outs1,   \* the values held by the tensors of outs[1]
    ie_ran      \* the conditional bodies run by the replay

ieVars == <<ie_pc, ie_is_cuda, ie_pred, ie_true, ie_false, ie_ops, ie_outs0,
            ie_outs1, ie_ran>>

VARIABLES
    en_pc,      \* autograd engine: "ready" between calls, "running" inside backward()
    en_n,       \* the graph has the nodes 1..en_n; node en_n is the output
    en_w,       \* en_w[<<c, p>>]: the factor of the backward rule of the consumer c
                \* for its input p, 0 when c does not consume p
    en_retain,  \* retain_graph of the calls
    en_freed,   \* the edges of the graph were freed
    en_deps,    \* per node: consumers that have yet to contribute
    en_buf,     \* per node: the gradient accumulated for it in this call
    en_done,    \* the nodes whose backward rule was invoked in this call
    en_has,     \* per tensor: .grad is not None
    en_grad,    \* per tensor: .grad
    en_cnt,     \* per tensor: accumulations into .grad since it was last zeroed
    en_calls    \* the calls of backward() made

enVars == <<en_pc, en_n, en_w, en_retain, en_freed, en_deps, en_buf, en_done,
            en_has, en_grad, en_cnt, en_calls>>

VARIABLES
    wm_pc,        \* warm-up dispatch mode: "out" before the scope, "body"
                  \* inside it, "exit" when the body is over, "left" afterwards
    wm_mode0,     \* stream-capture mode of the thread before __enter__
    wm_mode,      \* stream-capture mode of the thread
    wm_original,  \* self.original_capture_mode
    wm_acq,       \* the contexts acquired, in order
    wm_rel,       \* the contexts released, in order
    wm_ops,       \* operations dispatched under the mode
    wm_exc        \* the exception that leaves the scope, "none" without one

wmVars == <<wm_pc, wm_mode0, wm_mode, wm_original, wm_acq, wm_rel, wm_ops,
            wm_exc>>

VARIABLES
    am_enabled,  \* AmpScaler: self._enabled
    am_custom,   \* per optimizer: step_supports_amp_scaling
    am_grad,     \* per optimizer: the gradients of its parameters
    am_state,    \* per optimizer: its entry of self._per_optimizer_states
    am_scale,    \* self._scale, as the updates applied to the initial scale
    am_uns,      \* per optimizer and parameter: unscalings since the last update
    am_steps,    \* per optimizer: optimizer.step() runs since the last update
    am_last,     \* the last call made on the scaler and how it ended
    am_calls     \* the calls made on the scaler

amVars == <<am_enabled, am_custom, am_grad, am_state, am_scale, am_uns,
            am_steps, am_last, am_calls>>

VARIABLES
    ac_cuda,     \* autocast: torch.cuda.is_available()
    ac_flag,     \* the autocast-enabled flag of the thread
    ac_nesting,  \* the nesting count of the thread
    ac_cache,    \* the autocast cache holds casts
    ac_prev,     \* per instance: self.prev ("None" before the first __enter__)
    ac_stack,    \* the active regions, outermost first, each with the flag
                 \* before its __enter__
    ac_last      \* the last call and, for __exit__, the flag before the
                 \* matching __enter__

acVars == <<ac_cuda, ac_flag, ac_nesting, ac_cache, ac_prev, ac_stack,
            ac_last>>

VARIABLES
    aw_tracing,  \* functional collectives: _are_we_tracing()
    aw_tensors,  \* the tensors made so far, each with the tensor it is a view
                 \* of (0 for the result of a collective), whether wait_tensor
                 \* was issued on it, and whether an AsyncCollectiveTensor
                 \* wraps it
    aw_last      \* the last call: what it was, the tensors whose data it
                 \* read, and whether it returned a wrapper

awVars == <<aw_tracing, aw_tensors, aw_last>>

VARIABLES
    cm_kind,    \* comm reordering: per scheduler node: "compute", "collective" or "wait"
    cm_deps,    \* inverse_users: per node, the nodes it depends on
    cm_cost,    \* per node: its estimated runtime
    cm_order,   \* the current order of the nodes
    cm_err,     \* the exception of the last pass, "none" without one
    cm_last,    \* the last pass applied
    cm_passes   \* the passes applied

cmVars == <<cm_kind, cm_deps, cm_cost, cm_order, cm_err, cm_last,
            cm_passes>>

VARIABLES
    rd_pc,           \* redistribute: "input" before Redistribute.forward,
                     \* "forward" after it, "backward" after backward
    rd_shape,        \* the shape of the logical tensor
    rd_mesh,         \* the size of the one mesh dimension
    rd_coord,        \* my_coordinate on it, -1 when this rank is not part of
                     \* the mesh
    rd_same_mesh,    \* the target spec is on the mesh of the input
    rd_current,      \* the placement of the input
    rd_target,       \* the placement asked for
    rd_out,          \* what forward returned or raised
    rd_grad,         \* the placement of grad_output
    rd_grad_target,  \* the target placement that backward chose
    rd_grad_out      \* what backward returned or raised

rdVars == <<rd_pc, rd_shape, rd_mesh, rd_coord, rd_same_mesh, rd_current,
            rd_target, rd_out, rd_grad, rd_grad_target, rd_grad_out>>

VARIABLES
    cb_fn,      \* conditional-node capture: "if_else_node" or "while_loop_node"
    cb_n,       \* the number of outputs of a branch, or of carried tensors
    cb_raises,  \* the position of the call that raises, 0 when none does
    cb_pc,      \* "call" before the function is called, "done" after it
    cb_log,     \* the calls made, in order, each with whether it raised
    cb_err      \* the function propagated an exception

cbVars == <<cb_fn, cb_n, cb_raises, cb_pc, cb_log, cb_err>>

VARIABLES
    sy_last,  \* symbol names: the symbol made by the last make_symbol call
    sy_prev   \* the symbol made by the call before it

syVars == <<sy_last, sy_prev>>

vars == <<vrVars, njVars, gcVars, scVars, wlVars, ieVars,
         enVars, wmVars, amVars, acVars, awVars, cmVars,
         rdVars, cbVars, syVars>>

\* the variables of the other subsystems, left alone by the actions of one
notVR == <<njVars, gcVars, scVars, wlVars, ieVars, enVars,
           wmVars, amVars, acVars, awVars, cmVars, rdVars,
           cbVars, syVars>>
notNJ == <<vrVars, gcVars, scVars, wlVars, ieVars, enVars,
           wmVars, amVars, acVars, awVars, cmVars, rdVars,
           cbVars, syVars>>
notGC == <<vrVars, njVars, scVars, wlVars, ieVars, enVars,
           wmVars, amVars, acVars, awVars, cmVars, rdVars,
           cbVars, syVars>>
notSC == <<vrVars, njVars, gcVars, wlVars, ieVars, enVars,
           wmVars, amVars, acVars, awVars, cmVars, rdVars,
           cbVars, syVars>>
notWL == <<vrVars, njVars, gcVars, scVars, ieVars, enVars,
           wmVars, amVars, acVars, awVars, cmVars, rdVars,
           cbVars, syVars>>
notIE == <<vrVars, njVars, gcVars, scVars, wlVars, enVars,
           wmVars, amVars, acVars, awVars, cmVars, rdVars,
           cbVars, syVars>>
notEN == <<vrVars, njVars, gcVars, scVars, wlVars, ieVars,
           wmVars, amVars, acVars, awVars, cmVars, rdVars,
           cbVars, syVars>>
notWM == <<vrVars, njVars, gcVars, scVars, wlVars, ieVars,
           enVars, amVars, acVars, awVars, cmVars, rdVars,
           cbVars, syVars>>
notAM == <<vrVars, njVars, gcVars, scVars, wlVars, ieVars,
           enVars, wmVars, acVars, awVars, cmVars, rdVars,
           cbVars, syVars>>
notAC == <<vrVars, njVars, gcVars, scVars, wlVars, ieVars,
           enVars, wmVars, amVars, awVars, cmVars, rdVars,
           cbVars, syVars>>
notAW == <<vrVars, njVars, gcVars, scVars, wlVars, ieVars,
           enVars, wmVars, amVars, acVars, cmVars, rdVars,
           cbVars, syVars>>
notCM == <<vrVars, njVars, gcVars, scVars, wlVars, ieVars,
           enVars, wmVars, amVars, acVars, awVars, rdVars,
           cbVars, syVars>>
notRD == <<vrVars, njVars, gcVars, scVars, wlVars, ieVars,
           enVars, wmVars, amVars, acVars, awVars, cmVars,
           cbVars, syVars>>
notCB == <<vrVars, njVars, gcVars, scVars, wlVars, ieVars,
           enVars, wmVars, amVars, acVars, awVars, cmVars,
           rdVars, syVars>>
notSY == <<vrVars, njVars, gcVars, scVars, wlVars, ieVars,
           enVars, wmVars, amVars, acVars, awVars, cmVars,
           rdVars, cbVars>>

(***************************************************************************)
(* Bounds of the model.                                                    *)
(***************************************************************************)
MaxBound == 2       \* finite range bounds are the integers -MaxBound..MaxBound
MaxTensors == 2     \* gradcheck inputs hold 1..MaxTensors tensors
MaxNumel == 2       \* a tensor holds 0..MaxNumel entries
MaxVal == 1         \* tensor entries are the integers 0..MaxVal
MaxInputs == 2      \* gradcheck: 0..MaxInputs tensors require grad
MaxInNumel == 1     \* gradcheck: such a tensor holds 0..MaxInNumel entries
MaxOutputs == 2     \* gradcheck: func returns 0..MaxOutputs differentiable outputs
MaxOutNumel == 1    \* gradcheck: an output holds 1..MaxOutNumel entries
MaxJacobian == 2    \* gradcheck: the jacobians of one output hold at most MaxJacobian entries
MaxLeaves == 2      \* scan: input holds 0..MaxLeaves leaves
MaxScanLen == 4     \* scan: a leaf holds 0..MaxScanLen entries along dim
MaxScanVal == 4     \* scan: the entries are the integers 1..MaxScanVal
MaxScanEntries == 4 \* scan: the leaves hold at most MaxScanEntries entries together
MaxCarried == 2     \* while_loop: 1..MaxCarried carried tensors
MaxStart == 1       \* while_loop: the carried values start in 0..MaxStart
MaxLimit == 5       \* while_loop: cond_fn compares with a limit in 0..MaxLimit
MaxIter == 6        \* while_loop: the replay is followed for MaxIter executions of the body
MaxOperand == 1     \* cond: operands and stale buffer contents are in 0..MaxOperand
MaxNodes == 4       \* engine: the graph has 1..MaxNodes nodes
MaxEdges == 4       \* engine: and at most MaxEdges edges
MaxCalls == 2       \* engine: backward() is called at most MaxCalls times
MaxDispatched == 2  \* warm-up: at most MaxDispatched operations run in the scope
MaxParams == 2      \* scaler: every optimizer owns MaxParams parameters
MaxScalerCalls == 3 \* scaler: at most MaxScalerCalls calls are made on the scaler
MaxNesting == 3     \* autocast: regions are nested at most MaxNesting deep
MaxWrapped == 3     \* collectives: at most MaxWrapped results and views are made
MaxSNodes == 4      \* comms: the schedule has 1..MaxSNodes nodes
MaxPasses == 1      \* comms: at most MaxPasses reordering passes are chained
MaxDim == 2         \* redistribute: tensors have 1..MaxDim rows and columns
MaxCopied == 3      \* capture: a branch has, a loop carries, 1..MaxCopied tensors
MaxIdx == 10        \* symbols: make_symbol is called with idx in 0..MaxIdx

(***************************************************************************)
(* SymPy numbers.  A number is a pair <<n, d>>: the rational n/d in lowest *)
(* terms when d >= 1, and with d = 0 the non-finite atoms oo, -oo, nan and *)
(* zoo.  The boolean atoms sympy.true and sympy.false carry d = -1.        *)
(* A power with a fractional exponent can be irrational: <<n, d, q>> with  *)
(* q >= 2 is the positive q-th root of n/d, and <<0, 1, 0>> stands for a   *)
(* finite number that is not real.  Powers produce these values; the other *)
(* arithmetic operators are defined on the rationals and the atoms.        *)
(***************************************************************************)
RECURSIVE GCD(_, _)
GCD(m, n) == IF n = 0 THEN m ELSE GCD(n, m % n)

IAbs(n) == IF n < 0 THEN -n ELSE n

Rat(n, d) ==
    LET s == IF d < 0 THEN -1 ELSE 1
        g == GCD(IAbs(n), IAbs(d))
    IN  <<(s * n) \div g, (s * d) \div g>>

Integer(n) == <<n, 1>>
oo == <<1, 0>>
noo == <<-1, 0>>
nan == <<0, 0>>
zoo == <<2, 0>>
\* an infinite value that is not real, such as (-oo) ** (1/2)
ooI == <<3, 0>>
\* a finite value that is not real, such as (-1) ** (1/2)
nonreal == <<0, 1, 0>>
sympy_true == <<1, -1>>
sympy_false == <<0, -1>>

IsBoolAtom(v) == v[2] = -1
IsExpr(v) == v[2] >= 0
is_finite(v) == v[2] >= 1
IsInfinite(v) == v = oo \/ v = noo
Sign(v) == IF v[1] > 0 THEN 1 ELSE IF v[1] < 0 THEN -1 ELSE 0
Signed(s) == IF s > 0 THEN oo ELSE noo

\* n ** k for a natural number k
RECURSIVE IPow(_, _)
IPow(n, k) == IF k = 0 THEN 1 ELSE n * IPow(n, k - 1)

\* the degree of the root a finite value stands for: 1 for a rational
RootOfValue(v) == IF Len(v) = 3 THEN v[3] ELSE 1

\* x <= y for two finite real values: two rationals by cross multiplication,
\* a root (which is positive) against another value by comparing powers
FiniteLe(x, y) ==
    IF Len(x) = 2 /\ Len(y) = 2 THEN x[1] * y[2] <= y[1] * x[2]
    ELSE IF x[1] < 0 THEN TRUE
    ELSE IF y[1] < 0 THEN FALSE
    ELSE IPow(x[1], RootOfValue(y)) * IPow(y[2], RootOfValue(x))
            <= IPow(y[1], RootOfValue(x)) * IPow(x[2], RootOfValue(y))

\* SymPy raises TypeError when it is asked to order nan or a value that is
\* not real
CanCompare(v) == v # nan /\ v # zoo /\ v # ooI /\ v # nonreal

\* lower <= upper on extended real numbers
LeV(x, y) ==
    \/ x = y
    \/ x = noo
    \/ y = oo
    \/ is_finite(x) /\ is_finite(y) /\ FiniteLe(x, y)

LtV(x, y) == LeV(x, y) /\ x # y

MinV(x, y) == IF LtV(y, x) THEN y ELSE x
MaxV(x, y) == IF LtV(x, y) THEN y ELSE x

NegV(x) == IF x = nan \/ x = zoo THEN x ELSE <<-x[1], x[2]>>

AddV(x, y) ==
    IF x = nan \/ y = nan \/ x = zoo \/ y = zoo THEN nan
    ELSE IF IsInfinite(x) THEN (IF IsInfinite(y) /\ x # y THEN nan ELSE x)
    ELSE IF IsInfinite(y) THEN y
    ELSE Rat(x[1] * y[2] + y[1] * x[2], x[2] * y[2])

MulV(x, y) ==
    IF x = nan \/ y = nan THEN nan
    ELSE IF ~is_finite(x) \/ ~is_finite(y)
         THEN (IF Sign(x) = 0 \/ Sign(y) = 0 THEN nan
               ELSE IF x = zoo \/ y = zoo THEN zoo
               ELSE Signed(Sign(x) * Sign(y)))
    ELSE Rat(x[1] * y[1], x[2] * y[2])

AbsV(x) == IF Sign(x) < 0 THEN NegV(x) ELSE x

\* 1 / y
RecipV(y) ==
    IF y = nan THEN nan
    ELSE IF ~is_finite(y) THEN Integer(0)
    ELSE IF y[1] = 0 THEN zoo
    ELSE Rat(y[2], y[1])

\* x ** n for an integer n >= 1, by repeated multiplication
RECURSIVE PowPos(_, _)
PowPos(x, n) == IF n = 1 THEN x ELSE MulV(x, PowPos(x, n - 1))

\* x ** n for any integer n
PowV(x, n) ==
    IF n = 0 THEN Integer(1)
    ELSE IF n > 0 THEN PowPos(x, n)
    ELSE RecipV(PowPos(x, -n))

\* the natural number whose g-th power is n, when there is one
IsPower(n, g) == \E r \in 0..n : IPow(r, g) = n
IRoot(n, g) == CHOOSE r \in 0..n : IPow(r, g) = n

\* the q-th root of the positive rational y, q >= 2: a rational when y is a
\* q-th power, otherwise the root of the least degree with the same value
Root(y, q) ==
    LET g == CHOOSE g \in 1..q :
                 /\ q % g = 0 /\ IsPower(y[1], g) /\ IsPower(y[2], g)
                 /\ \A h \in 1..q :
                        (q % h = 0 /\ IsPower(y[1], h) /\ IsPower(y[2], h))
                            => h <= g
    IN  IF g = q THEN <<IRoot(y[1], g), IRoot(y[2], g)>>
        ELSE <<IRoot(y[1], g), IRoot(y[2], g), q \div g>>

\* x ** e for a fraction e = p/q in lowest terms, q >= 2, and a rational or
\* infinite x
PowQ(x, e) ==
    IF x = nan THEN nan
    ELSE IF x = oo THEN (IF e[1] > 0 THEN oo ELSE Integer(0))
    ELSE IF x = noo THEN (IF e[1] > 0 THEN ooI ELSE Integer(0))
    ELSE IF x = zoo THEN (IF e[1] > 0 THEN zoo ELSE Integer(0))
    ELSE IF x[1] = 0 THEN (IF e[1] > 0 THEN Integer(0) ELSE zoo)
    ELSE IF x[1] < 0 THEN nonreal
    ELSE Root(PowV(x, e[1]), e[2])

\* x ** oo for a rational or infinite x
PowInf(x) ==
    IF x = oo THEN oo
    ELSE IF ~is_finite(x) THEN nan
    ELSE IF x[1] = x[2] \/ x[1] = -x[2] THEN nan
    ELSE IF x[1] > x[2] THEN oo
    ELSE IF x[1] < -x[2] THEN ooI
    ELSE Integer(0)

\* x ** e for a rational or infinite exponent e
PowE(x, e) ==
    IF e = oo THEN PowInf(x)
    ELSE IF e = noo
    THEN (IF x = oo THEN Integer(0)
          ELSE IF ~is_finite(x) THEN nan
          ELSE IF x[1] = 0 THEN zoo
          ELSE PowInf(RecipV(x)))
    ELSE IF e[2] = 1 THEN PowV(x, e[1])
    ELSE PowQ(x, e)

\* x / y: a rational for two integers, zoo for a division by zero, nan for
\* 0 / 0 and for two infinities
DivV(x, y) ==
    IF x = nan \/ y = nan THEN nan
    ELSE IF x = zoo \/ y = zoo THEN (IF x = zoo /\ is_finite(y) THEN zoo ELSE nan)
    ELSE IF is_finite(x) /\ is_finite(y)
    THEN (IF y[1] # 0 THEN Rat(x[1] * y[2], x[2] * y[1])
          ELSE IF x[1] = 0 THEN nan ELSE zoo)
    ELSE IF is_finite(x) THEN Integer(0)
    ELSE IF is_finite(y)
         THEN (IF Sign(y) = 0 THEN zoo ELSE Signed(Sign(x) * Sign(y)))
    ELSE nan

\* Integer.__floordiv__: Python's // on two integers, divmod against an
\* infinite divisor; Expr.__floordiv__ (floor(x / y)) for an infinite x
FloorDivV(x, y) ==
    IF is_finite(x) /\ is_finite(y)
    THEN (IF y[1] = 0 THEN zoo ELSE Integer((x[1] * Sign(y)) \div IAbs(y[1])))
    ELSE IF is_finite(x)
         THEN (IF Sign(x) = 0 \/ Sign(x) = Sign(y) THEN Integer(0) ELSE Integer(-1))
    ELSE IF is_finite(y)
         THEN (IF Sign(y) = 0 THEN zoo ELSE Signed(Sign(x) * Sign(y)))
    ELSE nan

\* Integer.__mod__: Python's % on two integers (sign of the divisor)
ModV(x, y) ==
    IF ~is_finite(x) \/ ~is_finite(y) THEN nan
    ELSE Integer(x[1] - y[1] * ((x[1] * Sign(y)) \div IAbs(y[1])))


(***************************************************************************)
(* ValueRanges.  An object is a record with the fields lower, upper and    *)
(* is_bool; exc = "none" for an object that exists, otherwise exc names    *)
(* the exception the call raised and no object was produced.               *)
(***************************************************************************)
Raise(e) == [exc |-> e, lower |-> nan, upper |-> nan, is_bool |-> FALSE]

Raised(r) == r.exc # "none"

\* simple_sympify accepts a constant that is not nan
simple_sympify_ok(e) == e # nan

sympy_generic_le(lower, upper) ==
    IF IsExpr(lower)
    THEN LeV(lower, upper)
    ELSE ~(lower = sympy_true /\ upper # sympy_true)

\* the assertions of sympy_generic_le: both bounds of the same kind
sympy_generic_le_ok(lower, upper) == IsExpr(lower) = IsExpr(upper)

ValueRangesNoCheck(lower, upper) ==
    IF ~simple_sympify_ok(lower) \/ ~simple_sympify_ok(upper)
       \/ ~sympy_generic_le_ok(lower, upper)
    THEN Raise("AssertionError")
    ELSE [exc |-> "none", lower |-> lower, upper |-> upper,
          is_bool |-> IsBoolAtom(lower)]

ValueRanges(lower, upper) ==
    IF ~simple_sympify_ok(lower) \/ ~simple_sympify_ok(upper)
       \/ ~sympy_generic_le_ok(lower, upper)
    THEN Raise("AssertionError")
    ELSE IF IsExpr(lower) /\ (~CanCompare(lower) \/ ~CanCompare(upper))
    THEN Raise("TypeError")
    ELSE IF ~sympy_generic_le(lower, upper)
    THEN Raise("ValueRangeError")
    ELSE [exc |-> "none", lower |-> lower, upper |-> upper,
          is_bool |-> IsBoolAtom(lower)]

unknown == ValueRanges(noo, oo)

wrap(v) == ValueRanges(v, v)

\* ValueRanges.__contains__ on a numeric range
Contains(r, x) == sympy_generic_le(r.lower, x) /\ sympy_generic_le(x, r.upper)

is_singleton(r) == r.lower = r.upper

\* sympy.Or / sympy.And / sympy.Not on the boolean atoms
OrB(x, y) == IF x = sympy_true \/ y = sympy_true THEN sympy_true ELSE sympy_false
AndB(x, y) == IF x = sympy_true /\ y = sympy_true THEN sympy_true ELSE sympy_false
NotB(x) == IF x = sympy_true THEN sympy_false ELSE sympy_true

\* ValueRanges.__and__ : intersection
MeetSwapped(self, other) ==
    IF other = unknown THEN self
    ELSE IF self = unknown THEN other
    ELSE IF self.is_bool # other.is_bool THEN Raise("AssertionError")
    ELSE IF self.is_bool
         THEN ValueRanges(AndB(self.lower, other.lower), OrB(self.upper, other.upper))
         ELSE ValueRanges(MinV(self.lower, other.lower), MaxV(self.upper, other.upper))

Meet(self, other) ==
    IF other = unknown THEN self
    ELSE IF self = unknown THEN other
    ELSE IF self.is_bool # other.is_bool THEN Raise("AssertionError")
    ELSE IF self.is_bool
         THEN ValueRanges(OrB(self.lower, other.lower), AndB(self.upper, other.upper))
         ELSE ValueRanges(MaxV(self.lower, other.lower), MinV(self.upper, other.upper))

\* ValueRanges.__or__ : union
Join(self, other) ==
    IF self = unknown \/ other = unknown THEN unknown
    ELSE IF self.is_bool # other.is_bool THEN Raise("AssertionError")
    ELSE IF self.is_bool
         THEN ValueRanges(AndB(self.lower, other.lower), OrB(self.upper, other.upper))
         ELSE ValueRanges(MinV(self.lower, other.lower), MaxV(self.upper, other.upper))

(***************************************************************************)
(* The monotone maps.  fn is applied to the bounds only, so each map takes *)
(* the images of the bounds under fn: fl = fn(x.lower), fu = fn(x.upper),  *)
(* and for two operands the images of the corners.                         *)
(***************************************************************************)
increasing_map(fl, fu) == ValueRanges(fl, fu)

decreasing_map(fl, fu) == ValueRanges(fu, fl)

\* min() / max() of Python over SymPy numbers; comparing nan or a value
\* that is not real is a TypeError
monotone_map(fl, fu) ==
    IF ~CanCompare(fl) \/ ~CanCompare(fu) THEN Raise("TypeError")
    ELSE ValueRanges(MinV(fl, fu), MaxV(fl, fu))

convex_min_zero_map(x, fl, fu) ==
    IF Contains(x, Integer(0))
    THEN (IF ~CanCompare(fl) \/ ~CanCompare(fu) THEN Raise("TypeError")
          ELSE ValueRanges(Integer(0), MaxV(fl, fu)))
    ELSE monotone_map(fl, fu)

\* fll = fn(x.lower, y.lower), fuu = fn(x.upper, y.upper)
coordinatewise_increasing_map(fll, fuu) == ValueRanges(fll, fuu)

\* the four corners fn(x.lower, y.lower), fn(x.lower, y.upper),
\* fn(x.upper, y.lower), fn(x.upper, y.upper)
coordinatewise_monotone_map(p1, p2, p3, p4) ==
    IF \E p \in {p1, p2, p3, p4} : ~CanCompare(p) THEN Raise("TypeError")
    ELSE ValueRanges(MinV(MinV(p1, p2), MinV(p3, p4)),
                     MaxV(MaxV(p1, p2), MaxV(p3, p4)))

(***************************************************************************)
(* SymPyValueRangeAnalysis / ValueRangeAnalysis: one rule per operator.    *)
(***************************************************************************)
and_(a, b) ==
    coordinatewise_increasing_map(AndB(a.lower, b.lower), AndB(a.upper, b.upper))

add(a, b) ==
    coordinatewise_increasing_map(AddV(a.lower, b.lower), AddV(a.upper, b.upper))

\* the product without the special case for 0
safe_mul_plain(a, b) == MulV(a, b)

safe_mul(a, b) ==
    IF a = Integer(0) THEN a
    ELSE IF b = Integer(0) THEN b
    ELSE MulV(a, b)

mul_increasing(a, b) ==
    IF a.is_bool # b.is_bool THEN Raise("AssertionError")
    ELSE IF a.is_bool THEN and_(a, b)
    ELSE coordinatewise_increasing_map(safe_mul(a.lower, b.lower),
                                       safe_mul(a.upper, b.upper))

mul(a, b) ==
    IF a.is_bool # b.is_bool THEN Raise("AssertionError")
    ELSE IF a.is_bool THEN and_(a, b)
    ELSE coordinatewise_monotone_map(safe_mul(a.lower, b.lower),
                                     safe_mul(a.lower, b.upper),
                                     safe_mul(a.upper, b.lower),
                                     safe_mul(a.upper, b.upper))

floordiv(a, b) ==
    IF Contains(b, Integer(0))
       \/ ((Contains(a, noo) \/ Contains(a, oo)) /\ (Contains(b, noo) \/ Contains(b, oo)))
    THEN unknown
    ELSE coordinatewise_monotone_map(FloorDivV(a.lower, b.lower),
                                     FloorDivV(a.lower, b.upper),
                                     FloorDivV(a.upper, b.lower),
                                     FloorDivV(a.upper, b.upper))

\* mod with the tight upper bound y.upper - 1
mod_tight(x, y) ==
    IF is_singleton(x) /\ is_singleton(y) /\ y.lower # Integer(0)
    THEN wrap(ModV(x.lower, y.lower))
    ELSE IF LeV(y.lower, Integer(0)) THEN unknown
    ELSE ValueRanges(Integer(0), AddV(y.upper, Integer(-1)))

mod(x, y) ==
    IF is_singleton(x) /\ is_singleton(y) /\ y.lower # Integer(0)
    THEN wrap(ModV(x.lower, y.lower))
    ELSE IF LeV(y.lower, Integer(0)) THEN unknown
    ELSE ValueRanges(Integer(0), y.upper)

reciprocal(x) ==
    IF Contains(x, Integer(0)) THEN unknown
    ELSE decreasing_map(RecipV(x.lower), RecipV(x.upper))

\* is_integer (lines 328-331)
is_integer(val) == Len(val) = 2 /\ val[2] = 1

\* pow that takes x ** n to be increasing for every n
pow_increasing(a, b) ==
    IF ~is_singleton(b) THEN unknown
    ELSE LET e == b.lower
         IN  IF is_singleton(a)
             THEN (IF ~is_finite(PowE(a.lower, e)) THEN unknown
                   ELSE wrap(PowE(a.lower, e)))
             ELSE IF e = Integer(0)
                  THEN (IF ~is_finite(a.lower) THEN unknown ELSE wrap(Integer(1)))
             ELSE LET a1 == IF e[1] < 0 THEN reciprocal(a) ELSE a
                      e1 == IF e[1] < 0 THEN NegV(e) ELSE e
                  IN  IF a1 = unknown THEN unknown
                      ELSE IF ~is_integer(e1)
                      THEN (IF LeV(Integer(0), a1.lower)
                            THEN increasing_map(PowE(a1.lower, e1),
                                                PowE(a1.upper, e1))
                            ELSE unknown)
                      ELSE increasing_map(PowE(a1.lower, e1),
                                          PowE(a1.upper, e1))

\* pow(a, b) (lines 336-377) for a numeric base and a numeric exponent
pow(a, b) ==
    IF ~is_singleton(b) THEN unknown
    ELSE LET e == b.lower
         IN  IF is_singleton(a)
             THEN (IF ~is_finite(PowE(a.lower, e)) THEN unknown
                   ELSE wrap(PowE(a.lower, e)))
             ELSE IF e = Integer(0)
                  THEN (IF ~is_finite(a.lower) THEN unknown ELSE wrap(Integer(1)))
             ELSE LET a1 == IF e[1] < 0 THEN reciprocal(a) ELSE a
                      e1 == IF e[1] < 0 THEN NegV(e) ELSE e
                  IN  IF a1 = unknown THEN unknown
                      ELSE IF ~is_integer(e1)
                      THEN (IF LeV(Integer(0), a1.lower)
                            THEN increasing_map(PowE(a1.lower, e1),
                                                PowE(a1.upper, e1))
                            ELSE unknown)
                      ELSE IF e1[1] % 2 = 0
                           THEN convex_min_zero_map(a1, PowE(a1.lower, e1),
                                                    PowE(a1.upper, e1))
                           ELSE increasing_map(PowE(a1.lower, e1),
                                               PowE(a1.upper, e1))

abs(x) == convex_min_zero_map(x, AbsV(x.lower), AbsV(x.upper))

minimum(a, b) ==
    coordinatewise_increasing_map(MinV(a.lower, b.lower), MinV(a.upper, b.upper))

maximum(a, b) ==
    coordinatewise_increasing_map(MaxV(a.lower, b.lower), MaxV(a.upper, b.upper))

square(x) ==
    convex_min_zero_map(x, MulV(x.lower, x.lower), MulV(x.upper, x.upper))

neg(x) == decreasing_map(NegV(x.lower), NegV(x.upper))

sub(a, b) == add(a, neg(b))

\* truediv that looks for a zero in the divisor only
truediv_unguarded(a, b) ==
    IF Contains(b, Integer(0))
    THEN unknown
    ELSE coordinatewise_monotone_map(DivV(a.lower, b.lower),
                                     DivV(a.lower, b.upper),
                                     DivV(a.upper, b.lower),
                                     DivV(a.upper, b.upper))

truediv(a, b) ==
    IF Contains(b, Integer(0))
       \/ ((Contains(a, noo) \/ Contains(a, oo)) /\ (Contains(b, noo) \/ Contains(b, oo)))
    THEN unknown
    ELSE coordinatewise_monotone_map(DivV(a.lower, b.lower),
                                     DivV(a.lower, b.upper),
                                     DivV(a.upper, b.lower),
                                     DivV(a.upper, b.upper))

not_(a) ==
    IF ~a.is_bool THEN Raise("AssertionError")
    ELSE decreasing_map(NotB(a.lower), NotB(a.upper))

\* the order comparisons of SymPy are not defined on the boolean atoms
eq(a, b) ==
    IF is_singleton(a) /\ is_singleton(b) /\ a.lower = b.lower
    THEN wrap(sympy_true)
    ELSE IF a.is_bool \/ b.is_bool THEN Raise("TypeError")
    ELSE IF LtV(b.upper, a.lower) \/ LtV(a.upper, b.lower)
    THEN wrap(sympy_false)
    ELSE ValueRanges(sympy_false, sympy_true)

ne(a, b) == IF Raised(eq(a, b)) THEN eq(a, b) ELSE not_(eq(a, b))

\* lt with <= in place of < in its first test
lt_loose(a, b) ==
    IF a.is_bool # b.is_bool THEN Raise("AssertionError")
    ELSE IF a.is_bool THEN and_(not_(a), b)
    ELSE IF LeV(a.upper, b.lower) THEN wrap(sympy_true)
    ELSE IF LeV(b.upper, a.lower) THEN wrap(sympy_false)
    ELSE ValueRanges(sympy_false, sympy_true)

lt(a, b) ==
    IF a.is_bool # b.is_bool THEN Raise("AssertionError")
    ELSE IF a.is_bool THEN and_(not_(a), b)
    ELSE IF LtV(a.upper, b.lower) THEN wrap(sympy_true)
    ELSE IF LeV(b.upper, a.lower) THEN wrap(sympy_false)
    ELSE ValueRanges(sympy_false, sympy_true)

gt(a, b) == lt(b, a)

le(a, b) == IF Raised(gt(a, b)) THEN gt(a, b) ELSE not_(gt(a, b))

ge(a, b) == IF Raised(lt(a, b)) THEN lt(a, b) ELSE not_(lt(a, b))

(***************************************************************************)
(* The value-range state machine: two operand ranges are given, one rule   *)
(* is applied to them and its outcome recorded.                            *)
(***************************************************************************)
BoundValues == {noo, oo} \cup {Integer(n) : n \in -MaxBound..MaxBound}

BoolAtoms == {sympy_false, sympy_true}

NumRanges ==
    {r \in [exc : {"none"}, lower : BoundValues, upper : BoundValues, is_bool : {FALSE}] :
        LeV(r.lower, r.upper)}

BoolRanges ==
    {r \in [exc : {"none"}, lower : BoolAtoms, upper : BoolAtoms, is_bool : {TRUE}] :
        r.lower = sympy_false \/ r.upper = sympy_true}

AllRanges == NumRanges \cup BoolRanges

Pending == Raise("pending")

IdleVR ==
    /\ vr_op = "idle"
    /\ vr_a = unknown
    /\ vr_b = unknown
    /\ vr_res = Pending

IdleNJ ==
    /\ nj_pc = "idle"
    /\ nj_x = <<>>
    /\ nj_x0 = <<>>
    /\ nj_req = <<>>
    /\ nj_contig = <<>>
    /\ nj_target = FALSE
    /\ nj_eps = 1
    /\ nj_k = 1
    /\ nj_i = 1
    /\ nj_orig = 0
    /\ nj_outa = 0
    /\ nj_jac = <<>>

NoResult == [kind |-> "none", msg |-> "", i |-> 0, j |-> 0]

IdleGC ==
    /\ gc_pc = "idle"
    /\ gc_raise = FALSE
    /\ gc_atol = Integer(0)
    /\ gc_rtol = Integer(0)
    /\ gc_in = <<>>
    /\ gc_out = <<>>
    /\ gc_i = 0
    /\ gc_seed = 1
    /\ gc_run = 1
    /\ gc_jac = <<>>
    /\ gc_jac_re = <<>>
    /\ gc_sizes = TRUE
    /\ gc_reentrant = TRUE
    /\ gc_num = <<>>
    /\ gc_grads = <<>>
    /\ gc_result = NoResult

IdleSC ==
    /\ sc_pc = "idle"
    /\ sc_fn = "add"
    /\ sc_input = <<>>
    /\ sc_reverse = FALSE
    /\ sc_elems = <<>>
    /\ sc_ind = 0
    /\ sc_xs = <<>>
    /\ sc_outs = <<>>
    /\ sc_calls = <<>>
    /\ sc_result = <<>>

IdleWL ==
    /\ wl_pc = "idle"
    /\ wl_is_tuple = TRUE
    /\ wl_pred = <<>>
    /\ wl_log = <<>>
    /\ wl_limit = 0
    /\ wl_body = "inc"
    /\ wl_vals0 = <<>>
    /\ wl_vals = <<>>
    /\ wl_handle = FALSE
    /\ wl_count = 0
    /\ wl_err = ""

IdleIE ==
    /\ ie_pc = "idle"
    /\ ie_is_cuda = TRUE
    /\ ie_pred = FALSE
    /\ ie_true = "inc"
    /\ ie_false = "inc"
    /\ ie_ops = <<>>
    /\ ie_outs0 = <<>>
    /\ ie_outs1 = <<>>
    /\ ie_ran = {}

IdleEN ==
    /\ en_pc = "idle"
    /\ en_n = 0
    /\ en_w = <<>>
    /\ en_retain = FALSE
    /\ en_freed = FALSE
    /\ en_deps = <<>>
    /\ en_buf = <<>>
    /\ en_done = {}
    /\ en_has = <<>>
    /\ en_grad = <<>>
    /\ en_cnt = <<>>
    /\ en_calls = 0

IdleWM ==
    /\ wm_pc = "idle"
    /\ wm_mode0 = "idle"
    /\ wm_mode = "idle"
    /\ wm_original = "idle"
    /\ wm_acq = <<>>
    /\ wm_rel = <<>>
    /\ wm_ops = 0
    /\ wm_exc = "idle"

IdleAM ==
    /\ am_enabled = FALSE
    /\ am_custom = <<>>
    /\ am_grad = <<>>
    /\ am_state = <<>>
    /\ am_scale = <<>>
    /\ am_uns = <<>>
    /\ am_steps = <<>>
    /\ am_last = <<>>
    /\ am_calls = 0

IdleAC ==
    /\ ac_cuda = FALSE
    /\ ac_flag = FALSE
    /\ ac_nesting = 0
    /\ ac_cache = FALSE
    /\ ac_prev = <<>>
    /\ ac_stack = <<>>
    /\ ac_last = <<>>

IdleAW ==
    /\ aw_tracing = FALSE
    /\ aw_tensors = <<>>
    /\ aw_last = <<>>

IdleCM ==
    /\ cm_kind = <<>>
    /\ cm_deps = <<>>
    /\ cm_cost = <<>>
    /\ cm_order = <<>>
    /\ cm_err = "idle"
    /\ cm_last = "idle"
    /\ cm_passes = 0

IdleRD ==
    /\ rd_pc = "idle"
    /\ rd_shape = <<>>
    /\ rd_mesh = 0
    /\ rd_coord = 0
    /\ rd_same_mesh = FALSE
    /\ rd_current = <<>>
    /\ rd_target = <<>>
    /\ rd_out = <<>>
    /\ rd_grad = <<>>
    /\ rd_grad_target = <<>>
    /\ rd_grad_out = <<>>

IdleCB ==
    /\ cb_fn = "idle"
    /\ cb_n = 0
    /\ cb_raises = 0
    /\ cb_pc = "idle"
    /\ cb_log = <<>>
    /\ cb_err = FALSE

IdleSY ==
    /\ sy_last = [name |-> <<>>, prefix |-> "none"]
    /\ sy_prev = [name |-> <<>>, prefix |-> "none"]

InitVR ==
    /\ vr_op = "init"
    /\ vr_a \in AllRanges
    /\ vr_b \in AllRanges
    /\ vr_res = Pending
    /\ IdleNJ /\ IdleGC /\ IdleSC /\ IdleWL /\ IdleIE /\ IdleEN /\ IdleWM
    /\ IdleAM /\ IdleAC /\ IdleAW /\ IdleCM /\ IdleRD /\ IdleCB /\ IdleSY

Numeric2 == vr_op = "init" /\ ~vr_a.is_bool /\ ~vr_b.is_bool

Apply(name, result) ==
    /\ vr_op' = name
    /\ vr_res' = result
    /\ UNCHANGED <<vr_a, vr_b, notVR>>

\* ValueRanges(lower, upper) on arbitrary constants; the operands record them
VR_Construct ==
    /\ vr_op = "init"
    /\ \E l, u \in BoundValues \cup BoolAtoms :
        /\ vr_a' = wrap(l)
        /\ vr_b' = wrap(u)
        /\ vr_res' = ValueRanges(l, u)
    /\ vr_op' = "ValueRanges"
    /\ UNCHANGED notVR

VR_And == vr_op = "init" /\ Apply("and", Meet(vr_a, vr_b))

VR_Or == vr_op = "init" /\ Apply("or", Join(vr_a, vr_b))

VR_add == Numeric2 /\ Apply("add", add(vr_a, vr_b))

VR_sub == Numeric2 /\ Apply("sub", sub(vr_a, vr_b))

VR_neg == Numeric2 /\ Apply("neg", neg(vr_a))

VR_mul == vr_op = "init" /\ Apply("mul", mul(vr_a, vr_b))

VR_abs == Numeric2 /\ Apply("abs", abs(vr_a))

VR_square == Numeric2 /\ Apply("square", square(vr_a))

VR_minimum == Numeric2 /\ Apply("minimum", minimum(vr_a, vr_b))

VR_maximum == Numeric2 /\ Apply("maximum", maximum(vr_a, vr_b))

VR_floordiv == Numeric2 /\ Apply("floordiv", floordiv(vr_a, vr_b))

VR_mod == Numeric2 /\ Apply("mod", mod(vr_a, vr_b))

\* the exponent is an integer whenever it is a singleton
VR_pow ==
    /\ Numeric2
    /\ is_singleton(vr_b) => is_finite(vr_b.lower)
    /\ Apply("pow", pow(vr_a, vr_b))

\* pow with an exponent that is not an integer (lines 365-370)
FractionExponents == {Rat(1, 2), Rat(-1, 2), Rat(3, 2)}

VR_pow_fraction ==
    /\ vr_op = "init"
    /\ ~vr_a.is_bool
    /\ \E e \in FractionExponents :
        /\ vr_b' = wrap(e)
        /\ vr_res' = pow(vr_a, wrap(e))
    /\ vr_op' = "pow"
    /\ UNCHANGED <<vr_a, notVR>>

VR_truediv == Numeric2 /\ Apply("truediv", truediv(vr_a, vr_b))

VR_not == vr_op = "init" /\ Apply("not", not_(vr_a))

VR_eq == vr_op = "init" /\ Apply("eq", eq(vr_a, vr_b))

VR_ne == vr_op = "init" /\ Apply("ne", ne(vr_a, vr_b))

VR_lt == vr_op = "init" /\ Apply("lt", lt(vr_a, vr_b))

VR_gt == vr_op = "init" /\ Apply("gt", gt(vr_a, vr_b))

VR_le == vr_op = "init" /\ Apply("le", le(vr_a, vr_b))

VR_ge == vr_op = "init" /\ Apply("ge", ge(vr_a, vr_b))

NextVR ==
    \/ VR_Construct
    \/ VR_And
    \/ VR_Or
    \/ VR_add
    \/ VR_sub
    \/ VR_neg
    \/ VR_mul
    \/ VR_abs
    \/ VR_square
    \/ VR_minimum
    \/ VR_maximum
    \/ VR_floordiv
    \/ VR_mod
    \/ VR_pow
    \/ VR_pow_fraction
    \/ VR_truediv
    \/ VR_not
    \/ VR_eq
    \/ VR_ne
    \/ VR_lt
    \/ VR_gt
    \/ VR_le
    \/ VR_ge

SpecVR == InitVR /\ [][NextVR]_vars

(***************************************************************************)
(* Concrete integer semantics of the operators, used to state soundness.   *)
(***************************************************************************)
ConcInts == -(MaxBound + 1)..(MaxBound + 1)

Members(r) == {x \in ConcInts : LeV(r.lower, Integer(x)) /\ LeV(Integer(x), r.upper)}

IMin(x, y) == IF x <= y THEN x ELSE y
IMax(x, y) == IF x <= y THEN y ELSE x

\* floor(x / y) for y # 0
IFloorDiv(x, y) == IF y > 0 THEN x \div y ELSE (-x) \div (-y)

UnaryOps == {"neg", "abs", "square"}

BinaryOps == {"add", "sub", "mul", "minimum", "maximum", "floordiv", "mod", "pow"}

ConcreteDefined(op, x, y) ==
    CASE op \in {"floordiv", "mod"} -> y # 0
      [] op = "pow" -> ~(x = 0 /\ y < 0)
      [] OTHER -> TRUE

Concrete(op, x, y) ==
    CASE op = "neg" -> Integer(-x)
      [] op = "abs" -> Integer(IAbs(x))
      [] op = "square" -> Integer(x * x)
      [] op = "add" -> Integer(x + y)
      [] op = "sub" -> Integer(x - y)
      [] op = "mul" -> Integer(x * y)
      [] op = "minimum" -> Integer(IMin(x, y))
      [] op = "maximum" -> Integer(IMax(x, y))
      [] op = "floordiv" -> Integer(IFloorDiv(x, y))
      [] op = "mod" -> Integer(x - y * IFloorDiv(x, y))
      [] op = "pow" -> IF y >= 0 THEN Integer(IPow(x, y)) ELSE Rat(1, IPow(x, -y))

\* C1: whenever one of the rules add, sub, neg, mul, abs, square, minimum,
\* maximum, floordiv, mod, pow returns a range for integer ranges a, b, the
\* concrete result f(x) or f(x, y) lies in that range for all integers x in a
\* and y in b on which the concrete operation is defined
C1_Soundness ==
    (/\ vr_op \in UnaryOps \cup BinaryOps
     /\ ~vr_a.is_bool /\ ~vr_b.is_bool
     /\ ~Raised(vr_res))
    => \A x \in Members(vr_a) :
          \A y \in (IF vr_op \in UnaryOps THEN {0} ELSE Members(vr_b)) :
             ConcreteDefined(vr_op, x, y)
                => /\ LeV(vr_res.lower, Concrete(vr_op, x, y))
                   /\ LeV(Concrete(vr_op, x, y), vr_res.upper)

\* a product of two ranges that both change sign, bounded by a finite range
C1_Witness ==
    /\ vr_op = "mul"
    /\ vr_a = ValueRanges(Integer(-2), Integer(1))
    /\ vr_b = ValueRanges(Integer(-1), Integer(2))
    /\ vr_res = ValueRanges(Integer(-4), Integer(2))

\* lower > upper in the order of the domain (true > false for the booleans)
Inverted(l, u) ==
    \/ IsExpr(l) /\ IsExpr(u) /\ l # u /\ LeV(u, l)
    \/ l = sympy_true /\ u = sympy_false

\* C2: every ValueRanges object that exists has lower <= upper with bounds of
\* the same kind (is_bool agreeing with both), whichever rule, meet or join
\* built it; ValueRanges(lower, upper) with lower > upper raises
\* ValueRangeError and produces no object
C2_RangeInvariant ==
    /\ (vr_op # "init" /\ ~Raised(vr_res))
          => /\ ~Inverted(vr_res.lower, vr_res.upper)
             /\ IsBoolAtom(vr_res.lower) = IsBoolAtom(vr_res.upper)
             /\ vr_res.is_bool = IsBoolAtom(vr_res.lower)
    /\ (vr_op = "ValueRanges" /\ Inverted(vr_a.lower, vr_b.lower))
          => vr_res.exc = "ValueRangeError"

\* the constructor was handed lower = 2 > upper = -1 and raised
C2_Witness ==
    /\ vr_op = "ValueRanges"
    /\ vr_a.lower = Integer(2)
    /\ vr_b.lower = Integer(-1)
    /\ vr_res.exc = "ValueRangeError"

\* the larger / the smaller of two bounds of the same kind
UpperOf(x, y) == IF sympy_generic_le(x, y) THEN y ELSE x
LowerOf(x, y) == IF sympy_generic_le(x, y) THEN x ELSE y

\* r is contained in s
Within(r, s) == sympy_generic_le(s.lower, r.lower) /\ sympy_generic_le(r.upper, s.upper)

Disjoint(a, b) == Inverted(a.lower, b.upper) \/ Inverted(b.lower, a.upper)

\* C3: for ranges a, b of the same kind, a & b (when it returns) lies within a
\* and within b and is (max of lowers, min of uppers); a lies within a | b;
\* a & unknown() = a, unknown() & a = a, a | unknown() = unknown(); the meet
\* of two disjoint ranges raises ValueRangeError
C3_LatticeLaws ==
    /\ (vr_op = "and" /\ ~Raised(vr_res) /\ vr_a.is_bool = vr_b.is_bool)
          => /\ Within(vr_res, vr_a)
             /\ Within(vr_res, vr_b)
             /\ vr_res.lower = UpperOf(vr_a.lower, vr_b.lower)
             /\ vr_res.upper = LowerOf(vr_a.upper, vr_b.upper)
    /\ (vr_op = "and" /\ vr_a.is_bool = vr_b.is_bool /\ Disjoint(vr_a, vr_b))
          => vr_res.exc = "ValueRangeError"
    /\ (vr_op = "and" /\ vr_b = unknown) => vr_res = vr_a
    /\ (vr_op = "and" /\ vr_a = unknown) => vr_res = vr_b
    /\ (vr_op = "or" /\ vr_a.is_bool = vr_b.is_bool)
          => ~Raised(vr_res) /\ Within(vr_a, vr_res) /\ Within(vr_b, vr_res)
    /\ (vr_op = "or" /\ (vr_a = unknown \/ vr_b = unknown)) => vr_res = unknown

\* two overlapping ranges, neither inside the other, were intersected
C3_Witness ==
    /\ vr_op = "and"
    /\ vr_a = ValueRanges(Integer(-2), Integer(1))
    /\ vr_b = ValueRanges(Integer(0), oo)
    /\ vr_res = ValueRanges(Integer(0), Integer(1))

(***************************************************************************)
(* get_numerical_jacobian(fn, input, target, eps).  The tensors are kept   *)
(* as their flattened storage; fn is a weighted sum of all the entries of  *)
(* input, so its output has one element.                                   *)
(***************************************************************************)
RECURSIVE SumSeq(_)
SumSeq(q) == IF q = <<>> THEN 0 ELSE Head(q) + SumSeq(Tail(q))

\* fn(input): entry j of tensor t weighs t + j - 1
fn(x) ==
    SumSeq([t \in 1..Len(x) |->
              SumSeq([j \in 1..Len(x[t]) |-> (t + j - 1) * x[t][j]])])

\* iter_tensors(target, True): the indices of the tensors that require grad
RECURSIVE iter_tensors(_, _)
iter_tensors(req, t) ==
    IF t > Len(req) THEN <<>>
    ELSE (IF req[t] THEN <<t>> ELSE <<>>) \o iter_tensors(req, t + 1)

x_tensors == iter_tensors(nj_req, 1)

\* make_jacobian(target, 1): zeros(nelement, 1) for each tensor requiring grad
make_jacobian(x, req) ==
    [k \in 1..Len(iter_tensors(req, 1)) |->
        [j \in 1..Len(x[iter_tensors(req, 1)[k]]) |-> 0]]

Tensors == UNION {[1..n -> 0..MaxVal] : n \in 0..MaxNumel}

InitNJ ==
    /\ nj_pc = "start"
    /\ \E n \in 1..MaxTensors :
        /\ nj_x0 \in [1..n -> Tensors]
        /\ nj_req \in [1..n -> BOOLEAN]
        /\ nj_contig \in [1..n -> BOOLEAN]
    /\ nj_x = nj_x0
    /\ nj_target \in BOOLEAN
    /\ nj_eps \in {1, 2}
    /\ nj_k = 1
    /\ nj_i = 1
    /\ nj_orig = 0
    /\ nj_outa = 0
    /\ nj_jac = <<>>
    /\ IdleVR /\ IdleGC /\ IdleSC /\ IdleWL /\ IdleIE /\ IdleEN /\ IdleWM
    /\ IdleAM /\ IdleAC /\ IdleAW /\ IdleCM /\ IdleRD /\ IdleCB /\ IdleSY

\* lines 56-70: the contiguity check of target, the sizing call of fn, the
\* zero jacobian
NJ_Start ==
    /\ nj_pc = "start"
    /\ IF nj_target /\ \E t \in 1..Len(nj_req) : nj_req[t] /\ ~nj_contig[t]
       THEN /\ nj_pc' = "raised"
            /\ UNCHANGED nj_jac
       ELSE /\ nj_pc' = "loop"
            /\ nj_jac' = make_jacobian(nj_x, nj_req)
    /\ UNCHANGED <<nj_x, nj_x0, nj_req, nj_contig, nj_target, nj_eps,
                   nj_k, nj_i, nj_orig, nj_outa, notNJ>>

\* lines 77-78: orig = flat_tensor[i].item(); flat_tensor[i] = orig - eps
NJ_PerturbMinus ==
    /\ nj_pc = "loop"
    /\ nj_k <= Len(x_tensors)
    /\ nj_i <= Len(nj_x[x_tensors[nj_k]])
    /\ nj_orig' = nj_x[x_tensors[nj_k]][nj_i]
    /\ nj_x' = [nj_x EXCEPT ![x_tensors[nj_k]][nj_i] = nj_orig' - nj_eps]
    /\ nj_pc' = "outa"
    /\ UNCHANGED <<nj_x0, nj_req, nj_contig, nj_target, nj_eps,
                   nj_k, nj_i, nj_outa, nj_jac, notNJ>>

\* lines 79-80: outa = fn(input).clone(); flat_tensor[i] = orig + eps
NJ_EvalPerturbPlus ==
    /\ nj_pc = "outa"
    /\ nj_outa' = fn(nj_x)
    /\ nj_x' = [nj_x EXCEPT ![x_tensors[nj_k]][nj_i] = nj_orig + nj_eps]
    /\ nj_pc' = "outb"
    /\ UNCHANGED <<nj_x0, nj_req, nj_contig, nj_target, nj_eps,
                   nj_k, nj_i, nj_orig, nj_jac, notNJ>>

\* the same step with the restoring store of line 82 left out
NJ_EvalNoRestore ==
    /\ nj_pc = "outb"
    /\ nj_jac' = [nj_jac EXCEPT ![nj_k][nj_i] =
                     (fn(nj_x) - nj_outa) \div (2 * nj_eps)]
    /\ nj_i' = nj_i + 1
    /\ nj_pc' = "loop"
    /\ UNCHANGED <<nj_x, nj_x0, nj_req, nj_contig, nj_target, nj_eps,
                   nj_k, nj_orig, nj_outa, notNJ>>

\* lines 81-85: outb = fn(input).clone(); flat_tensor[i] = orig;
\* d_tensor[i] = (outb - outa) / (2 * eps)
NJ_EvalRestore ==
    /\ nj_pc = "outb"
    /\ nj_jac' = [nj_jac EXCEPT ![nj_k][nj_i] =
                     (fn(nj_x) - nj_outa) \div (2 * nj_eps)]
    /\ nj_x' = [nj_x EXCEPT ![x_tensors[nj_k]][nj_i] = nj_orig]
    /\ nj_i' = nj_i + 1
    /\ nj_pc' = "loop"
    /\ UNCHANGED <<nj_x0, nj_req, nj_contig, nj_target, nj_eps,
                   nj_k, nj_orig, nj_outa, notNJ>>

\* line 72: the entries of this tensor are done, on to the next of x_tensors
NJ_NextTensor ==
    /\ nj_pc = "loop"
    /\ nj_k <= Len(x_tensors)
    /\ nj_i > Len(nj_x[x_tensors[nj_k]])
    /\ nj_k' = nj_k + 1
    /\ nj_i' = 1
    /\ UNCHANGED <<nj_pc, nj_x, nj_x0, nj_req, nj_contig, nj_target, nj_eps,
                   nj_orig, nj_outa, nj_jac, notNJ>>

\* line 87: return jacobian
NJ_Return ==
    /\ nj_pc = "loop"
    /\ nj_k > Len(x_tensors)
    /\ nj_pc' = "done"
    /\ UNCHANGED <<nj_x, nj_x0, nj_req, nj_contig, nj_target, nj_eps,
                   nj_k, nj_i, nj_orig, nj_outa, nj_jac, notNJ>>

NextNJ ==
    \/ NJ_Start
    \/ NJ_PerturbMinus
    \/ NJ_EvalPerturbPlus
    \/ NJ_EvalRestore
    \/ NJ_NextTensor
    \/ NJ_Return

SpecNJ == InitNJ /\ [][NextNJ]_vars

\* the entries (tensor, index) whose value is not the original one
Changed == {p \in {<<t, j>> : t \in 1..Len(nj_x0), j \in 1..MaxNumel + 1} :
               p[2] <= Len(nj_x0[p[1]]) /\ nj_x[p[1]][p[2]] # nj_x0[p[1]][p[2]]}

\* C4: at the evaluation of fn for outa exactly one entry, entry i of the
\* tensor being processed (which requires grad), differs from its original
\* value and holds orig - eps; at the evaluation for outb it holds
\* orig + eps; every other entry holds its original value; between entries,
\* on return and on a raise every entry of every tensor holds its original
\* value
C4_PerturbAndRestore ==
    /\ nj_pc \in {"outa", "outb"}
          => /\ Changed = {<<x_tensors[nj_k], nj_i>>}
             /\ nj_req[x_tensors[nj_k]]
             /\ nj_x[x_tensors[nj_k]][nj_i] =
                   nj_x0[x_tensors[nj_k]][nj_i]
                      + (IF nj_pc = "outa" THEN -nj_eps ELSE nj_eps)
    /\ nj_pc \in {"start", "loop", "done", "raised"} => nj_x = nj_x0

\* the function returned after perturbing the entries of two tensors
C4_Witness ==
    /\ nj_pc = "done"
    /\ Len(x_tensors) = 2
    /\ \A k \in 1..2 : Len(nj_x[x_tensors[k]]) = 2
    /\ \A k \in 1..2 : \A j \in 1..2 : nj_jac[k][j] = x_tensors[k] + j - 1

(***************************************************************************)
(* gradcheck(func, inputs, eps, atol, rtol, raise_exception).  func and    *)
(* the engine behind torch.autograd.grad are outside this code: what they  *)
(* return is chosen freely.  Gradient entries are floating-point numbers:  *)
(* the finite values 0 and 1 and the infinities, with IEEE arithmetic.     *)
(***************************************************************************)
FloatVals == {Integer(0), Integer(1), oo, noo}

\* a - n, a * n, a + n, abs and <= on tensors' entries; nan compares false
FSub(a, n) == AddV(a, NegV(n))
FLe(x, y) == x # nan /\ y # nan /\ LeV(x, y)

\* line 188, one entry: (a - n).abs() <= (atol + rtol * n.abs())
allclose_rel_a(a, n, atol, rtol) ==
    FLe(AbsV(FSub(a, n)), AddV(atol, MulV(rtol, AbsV(a))))

allclose(a, n, atol, rtol) ==
    FLe(AbsV(FSub(a, n)), AddV(atol, MulV(rtol, AbsV(n))))

\* the entries of a matrix (a sequence of rows)
Entries(m) == UNION {{<<r, c>> : c \in 1..Len(m[r])} : r \in 1..Len(m)}

numel(m) == Cardinality(Entries(m))

\* Tensor.max(): nan if any entry is nan, else the largest entry
TensorMax(vals) ==
    IF nan \in vals THEN nan
    ELSE CHOOSE v \in vals : \A w \in vals : LeV(w, v)

\* line 117 for one input: jacobian_x.numel() != 0 and
\* (jacobian_x - jacobian_reentrant_x).abs().max() != 0
differs(jx, jrx) ==
    /\ numel(jx) # 0
    /\ TensorMax({AbsV(FSub(jx[p[1]][p[2]], jrx[p[1]][p[2]])) : p \in Entries(jx)})
          # Integer(0)

\* make_jacobian(input, num_out): zeros(nelement, num_out) per input
zeros(rows, cols) == [r \in 1..rows |-> [c \in 1..cols |-> Integer(0)]]

make_jacobians(ins, num_out) == [j \in 1..Len(ins) |-> zeros(ins[j], num_out)]

\* fail_test(msg): raise RuntimeError(msg) or return False
fail_test_raise(raise, msg, i, j) ==
    [kind |-> "RuntimeError", msg |-> msg, i |-> i, j |-> j]

fail_test(raise, msg, i, j) ==
    IF raise THEN [kind |-> "RuntimeError", msg |-> msg, i |-> i, j |-> j]
    ELSE [kind |-> "False", msg |-> msg, i |-> i, j |-> j]

ReturnTrue == [kind |-> "True", msg |-> "", i |-> 0, j |-> 0]

\* what torch.autograd.grad hands back for one input of numel n: None, a
\* tensor of the size of the input, or a tensor of another size
GradResults(n) ==
    {[none |-> TRUE, size_ok |-> TRUE, type_ok |-> TRUE, val |-> <<>>]}
    \cup [none : {FALSE}, size_ok : {TRUE}, type_ok : BOOLEAN, val : [1..n -> FloatVals]]
    \cup [none : {FALSE}, size_ok : {FALSE}, type_ok : BOOLEAN, val : [1..n + 1 -> FloatVals]]

\* the gradients the engine may hand back for the inputs 1..k, one per input
RECURSIVE GradTuples(_, _)
GradTuples(ins, k) ==
    IF k = 0 THEN {<<>>}
    ELSE {Append(q, g) : q \in GradTuples(ins, k - 1), g \in GradResults(ins[k])}

\* of these, one per outcome of lines 106-114, which read neither the type
\* of a gradient nor the entries of one of the wrong size
RECURSIVE JacGradTuples(_, _)
JacGradTuples(ins, k) ==
    IF k = 0 THEN {<<>>}
    ELSE {Append(q, g) : q \in JacGradTuples(ins, k - 1),
                         g \in {h \in GradResults(ins[k]) :
                                  /\ h.type_ok
                                  /\ h.size_ok \/ \A e \in 1..Len(h.val) : h.val[e] = Integer(1)}}

Matrices(rows, cols) == [1..rows -> [1..cols -> FloatVals]]

\* the jacobians get_numerical_jacobian may hand back for the inputs 1..k
RECURSIVE NumTuples(_, _, _)
NumTuples(ins, num_out, k) ==
    IF k = 0 THEN {<<>>}
    ELSE {Append(q, m) : q \in NumTuples(ins, num_out, k - 1), m \in Matrices(ins[k], num_out)}

InitGC ==
    /\ gc_pc = "start"
    /\ gc_raise \in BOOLEAN
    /\ \E tol \in {<<Integer(0), Integer(1)>>, <<Integer(1), Integer(0)>>} :
          gc_atol = tol[1] /\ gc_rtol = tol[2]
    /\ gc_in \in UNION {[1..n -> 0..MaxInNumel] : n \in 0..MaxInputs}
    /\ SumSeq(gc_in) <= MaxJacobian
    /\ gc_out = <<>>
    /\ gc_i = 0
    /\ gc_seed = 1
    /\ gc_run = 1
    /\ gc_jac = <<>>
    /\ gc_jac_re = <<>>
    /\ gc_sizes = TRUE
    /\ gc_reentrant = TRUE
    /\ gc_num = <<>>
    /\ gc_grads = <<>>
    /\ gc_result = NoResult
    /\ IdleVR /\ IdleNJ /\ IdleSC /\ IdleWL /\ IdleIE /\ IdleEN /\ IdleWM
    /\ IdleAM /\ IdleAC /\ IdleAW /\ IdleCM /\ IdleRD /\ IdleCB /\ IdleSY

\* lines 159-166, 173-180 and 91-97: func is called, its differentiable
\* outputs kept; with no such output the loop over the outputs is skipped,
\* else get_analytical_jacobian is entered for the first one
GC_Call ==
    /\ gc_pc = "start"
    /\ gc_out' \in UNION {[1..n -> 1..MaxOutNumel] : n \in 0..MaxOutputs}
    /\ \A i \in 1..Len(gc_out') : SumSeq(gc_in) * gc_out'[i] <= MaxJacobian
    /\ IF gc_out' = <<>>
       THEN /\ gc_pc' = "linearity"
            /\ UNCHANGED <<gc_i, gc_jac, gc_jac_re>>
       ELSE /\ gc_pc' = "grad"
            /\ gc_i' = 1
            /\ gc_jac' = make_jacobians(gc_in, gc_out'[1])
            /\ gc_jac_re' = make_jacobians(gc_in, gc_out'[1])
    /\ UNCHANGED <<gc_raise, gc_atol, gc_rtol, gc_in, gc_seed, gc_run, gc_sizes,
                   gc_reentrant, gc_num, gc_grads, gc_result, notGC>>

\* lines 106-114 without the test of the size: the first entries of d_x
\* are stored
StoreColumnAnySize(jx, d_x, seed) ==
    IF numel(jx) = 0 THEN jx
    ELSE IF d_x.none THEN [r \in 1..Len(jx) |-> [jx[r] EXCEPT ![seed] = Integer(0)]]
    ELSE [r \in 1..Len(jx) |-> [jx[r] EXCEPT ![seed] = d_x.val[r]]]

\* column i of jacobian_x after lines 106-114 for the gradient d_x
StoreColumn(jx, d_x, seed) ==
    IF ~d_x.none /\ ~d_x.size_ok THEN jx
    ELSE IF numel(jx) = 0 THEN jx
    ELSE IF d_x.none THEN [r \in 1..Len(jx) |-> [jx[r] EXCEPT ![seed] = Integer(0)]]
    ELSE [r \in 1..Len(jx) |-> [jx[r] EXCEPT ![seed] = d_x.val[r]]]

\* lines 99-114, one pass of the inner loop: flat_grad_output is the one-hot
\* seed, torch.autograd.grad is called (retain_graph=True) and its gradients
\* are stored into jacobian (first pass) or jacobian_reentrant (second pass)
GC_Grad ==
    /\ gc_pc = "grad"
    /\ Len(gc_in) > 0
    /\ \E grads_input \in JacGradTuples(gc_in, Len(gc_in)) :
        /\ gc_grads' = grads_input
        /\ gc_sizes' = (gc_sizes /\ \A j \in 1..Len(gc_in) :
                            grads_input[j].none \/ grads_input[j].size_ok)
        /\ IF gc_run = 1
           THEN /\ gc_jac' = [j \in 1..Len(gc_in) |->
                                 StoreColumn(gc_jac[j], grads_input[j], gc_seed)]
                /\ UNCHANGED gc_jac_re
           ELSE /\ gc_jac_re' = [j \in 1..Len(gc_in) |->
                                    StoreColumn(gc_jac_re[j], grads_input[j], gc_seed)]
                /\ UNCHANGED gc_jac
    /\ IF gc_run = 1
       THEN gc_run' = 2 /\ UNCHANGED <<gc_seed, gc_pc>>
       ELSE /\ gc_run' = 1
            /\ gc_seed' = gc_seed + 1
            /\ gc_pc' = IF gc_seed = gc_out[gc_i] THEN "reentrant" ELSE "grad"
    /\ UNCHANGED <<gc_raise, gc_atol, gc_rtol, gc_in, gc_out, gc_i,
                   gc_reentrant, gc_num, gc_result, notGC>>

\* lines 92 and 103-105 with an empty diff_input_list: make_jacobian returned
\* None; the engine rejects the empty inputs, or else zip(None, ...) fails
GC_GradNoInputs ==
    /\ gc_pc = "grad"
    /\ Len(gc_in) = 0
    /\ gc_result' \in
          {[kind |-> "RuntimeError", msg |-> "grad requires non-empty inputs",
            i |-> gc_i - 1, j |-> 0],
           [kind |-> "TypeError", msg |-> "zip argument #1 must support iteration",
            i |-> gc_i - 1, j |-> 0]}
    /\ gc_pc' = "done"
    /\ UNCHANGED <<gc_raise, gc_atol, gc_rtol, gc_in, gc_out, gc_i, gc_seed, gc_run,
                   gc_jac, gc_jac_re, gc_sizes, gc_reentrant, gc_num, gc_grads, notGC>>

\* lines 116-120: the two jacobians are compared and get_analytical_jacobian
\* returns jacobian, reentrant and correct_grad_sizes; jacobian_reentrant
\* and grads_input are locals of the call
GC_Reentrant ==
    /\ gc_pc = "reentrant"
    /\ gc_reentrant' = ~\E j \in 1..Len(gc_in) : differs(gc_jac[j], gc_jac_re[j])
    /\ gc_jac_re' = <<>>
    /\ gc_grads' = <<>>
    /\ gc_pc' = "numerical"
    /\ UNCHANGED <<gc_raise, gc_atol, gc_rtol, gc_in, gc_out, gc_i, gc_seed, gc_run,
                   gc_jac, gc_sizes, gc_num, gc_result, notGC>>

\* line 181: numerical = get_numerical_jacobian(fn, inputs, eps=eps)
GC_Numerical ==
    /\ gc_pc = "numerical"
    /\ gc_num' \in NumTuples(gc_in, gc_out[gc_i], Len(gc_in))
    /\ gc_pc' = "check"
    /\ UNCHANGED <<gc_raise, gc_atol, gc_rtol, gc_in, gc_out, gc_i, gc_seed, gc_run,
                   gc_jac, gc_jac_re, gc_sizes, gc_reentrant, gc_grads, gc_result, notGC>>

\* lines 187-188: input j has a non-empty jacobian with an entry out of tolerance
mismatch(j) ==
    /\ (numel(gc_jac[j]) # 0 \/ numel(gc_num[j]) # 0)
    /\ \E p \in Entries(gc_jac[j]) :
          ~allclose(gc_jac[j][p[1]][p[2]], gc_num[j][p[1]][p[2]], gc_atol, gc_rtol)

\* lines 183-195: the verdict on output i
CheckOutput ==
    IF ~gc_sizes
    THEN fail_test(gc_raise, "Analytical gradient has incorrect size", gc_i - 1, 0)
    ELSE IF \E j \in 1..Len(gc_in) : mismatch(j)
    THEN fail_test(gc_raise, "Jacobian mismatch", gc_i - 1,
                   (CHOOSE j \in 1..Len(gc_in) :
                       mismatch(j) /\ \A k \in 1..j - 1 : ~mismatch(k)) - 1)
    ELSE IF ~gc_reentrant
    THEN fail_test(gc_raise, "Backward is not reentrant", gc_i - 1, 0)
    ELSE NoResult

\* lines 183-195, then the next turn of the loop of line 173 (lines 180 and
\* 91-97) or the loop's end
GC_Check ==
    /\ gc_pc = "check"
    /\ IF CheckOutput # NoResult
       THEN /\ gc_result' = CheckOutput
            /\ gc_pc' = "done"
            /\ UNCHANGED <<gc_i, gc_seed, gc_run, gc_jac, gc_jac_re, gc_sizes,
                           gc_reentrant, gc_num>>
       ELSE /\ UNCHANGED gc_result
            /\ gc_seed' = 1
            /\ gc_run' = 1
            /\ gc_sizes' = TRUE
            /\ gc_reentrant' = TRUE
            /\ gc_num' = <<>>
            /\ IF gc_i < Len(gc_out)
               THEN /\ gc_i' = gc_i + 1
                    /\ gc_jac' = make_jacobians(gc_in, gc_out[gc_i + 1])
                    /\ gc_jac_re' = make_jacobians(gc_in, gc_out[gc_i + 1])
                    /\ gc_pc' = "grad"
               ELSE /\ gc_jac' = <<>>
                    /\ gc_jac_re' = <<>>
                    /\ gc_pc' = "linearity"
                    /\ UNCHANGED gc_i
    /\ UNCHANGED <<gc_raise, gc_atol, gc_rtol, gc_in, gc_out, gc_grads, notGC>>

\* lines 205-213 with the type of gi looked at first
GradFaultTypeFirst(gi) ==
    IF gi.none THEN ""
    ELSE IF ~gi.type_ok THEN "grad is incorrect type"
    ELSE IF \E k \in 1..Len(gi.val) : gi.val[k] # Integer(0)
    THEN "backward not multiplied by grad_output"
    ELSE IF ~gi.size_ok THEN "grad is incorrect size"
    ELSE ""

\* lines 205-213 for one gradient gi
GradFault(gi) ==
    IF gi.none THEN ""
    ELSE IF \E k \in 1..Len(gi.val) : gi.val[k] # Integer(0)
    THEN "backward not multiplied by grad_output"
    ELSE IF ~gi.type_ok THEN "grad is incorrect type"
    ELSE IF ~gi.size_ok THEN "grad is incorrect size"
    ELSE ""

\* lines 205-215: the verdict on grads_input
CheckGrads(grads_input) ==
    IF \E j \in 1..Len(grads_input) : GradFault(grads_input[j]) # ""
    THEN LET j == CHOOSE j \in 1..Len(grads_input) :
                     /\ GradFault(grads_input[j]) # ""
                     /\ \A k \in 1..j - 1 : GradFault(grads_input[k]) = ""
         IN  fail_test(gc_raise, GradFault(grads_input[j]), 0, j - 1)
    ELSE ReturnTrue

\* lines 197-215: func is called again; with a differentiable output the
\* engine is run with zero grad_outputs and its gradients are inspected
GC_Linearity ==
    /\ gc_pc = "linearity"
    /\ \E any_requires_grad \in BOOLEAN :
        IF ~any_requires_grad
        THEN gc_result' = ReturnTrue /\ UNCHANGED gc_grads
        ELSE IF Len(gc_in) = 0
        THEN /\ gc_result' = [kind |-> "RuntimeError",
                              msg |-> "no Tensors requiring grad found in input",
                              i |-> 0, j |-> 0]
             /\ UNCHANGED gc_grads
        ELSE /\ gc_grads' \in GradTuples(gc_in, Len(gc_in))
             /\ gc_result' = CheckGrads(gc_grads')
    /\ gc_pc' = "done"
    /\ UNCHANGED <<gc_raise, gc_atol, gc_rtol, gc_in, gc_out, gc_i, gc_seed, gc_run,
                   gc_jac, gc_jac_re, gc_sizes, gc_reentrant, gc_num, notGC>>

NextGC ==
    \/ GC_Call
    \/ GC_Grad
    \/ GC_GradNoInputs
    \/ GC_Reentrant
    \/ GC_Numerical
    \/ GC_Check
    \/ GC_Linearity

SpecGC == InitGC /\ [][NextGC]_vars

(***************************************************************************)
(* Properties of gradcheck.                                                *)
(***************************************************************************)

\* the entry (a, n) is out of tolerance: |a - n| <= atol + rtol * |n| fails
\* in floating point, where inf - inf and 0 * inf are nan and every
\* comparison with nan is false
C5_Violates(a, n) ==
    IF is_finite(a) /\ is_finite(n)
    THEN IAbs(a[1] - n[1]) > gc_atol[1] + gc_rtol[1] * IAbs(n[1])
    ELSE IF is_finite(n) THEN TRUE
    ELSE IF a = n THEN TRUE
    ELSE gc_rtol = Integer(0)

\* the inputs whose jacobian for the current output is non-empty and holds
\* an entry out of tolerance
C5_Bad ==
    {j \in 1..Len(gc_in) :
        /\ gc_in[j] * gc_out[gc_i] # 0
        /\ \E r \in 1..gc_in[j], c \in 1..gc_out[gc_i] :
              C5_Violates(gc_jac[j][r][c], gc_num[j][r][c])}

\* C5: when the jacobians of output i are compared (their sizes being right),
\* gradcheck reports 'Jacobian mismatch' for output i and input j iff j is
\* the first input with a non-empty jacobian holding an entry that violates
\* |a - n| <= atol + rtol * |n|; it goes on to the next output only if no
\* entry of any input violates it, and it returns True only after it has
\* gone through every output
C5_ToleranceCriterion ==
    [][/\ (gc_pc = "check" /\ gc_sizes) =>
            /\ (gc_result'.msg = "Jacobian mismatch") <=> (C5_Bad # {})
            /\ (C5_Bad # {}) =>
                  /\ gc_result'.i = gc_i - 1
                  /\ gc_result'.j + 1 \in C5_Bad
                  /\ \A k \in C5_Bad : gc_result'.j + 1 <= k
       /\ (gc_pc = "check" /\ gc_pc' # "done") => (C5_Bad = {})
       /\ (gc_result'.kind = "True") => (gc_i = Len(gc_out))
      ]_vars

\* gradcheck has reported a mismatch for the second input, whose analytical
\* entry 1 is not within rtol * |n| of the numerical entry 0
C5_Witness ==
    /\ gc_pc = "done"
    /\ gc_result.msg = "Jacobian mismatch"
    /\ gc_result.j = 1
    /\ gc_atol = Integer(0)
    /\ gc_jac[2][1][1] = Integer(1)
    /\ gc_num[2][1][1] = Integer(0)

\* the failures reported through fail_test
FailTestMsgs ==
    {"Analytical gradient has incorrect size", "Jacobian mismatch",
     "Backward is not reentrant", "backward not multiplied by grad_output",
     "grad is incorrect type", "grad is incorrect size"}

NoTensorsMsg == "no Tensors requiring grad found in input"

\* the statement of C6 as it stands: every failure gradcheck detects, the
\* absence of tensors requiring grad included, raises RuntimeError when
\* raise_exception is true and is reported by returning False when it is not
C6_Original ==
    (gc_pc = "done" /\ gc_result.msg \in FailTestMsgs \cup {NoTensorsMsg}) =>
        gc_result.kind = (IF gc_raise THEN "RuntimeError" ELSE "False")

\* C6: a failure reported through fail_test raises RuntimeError when
\* raise_exception is true and returns False when it is not; the absence of
\* tensors requiring grad raises RuntimeError whatever raise_exception is;
\* False is returned only for a fail_test failure with raise_exception false,
\* and True only after every output was gone through and no gradient of the
\* final backward was found at fault
C6_FailureReporting ==
    gc_pc = "done" =>
        /\ gc_result.msg \in FailTestMsgs =>
              gc_result.kind = (IF gc_raise THEN "RuntimeError" ELSE "False")
        /\ gc_result.msg = NoTensorsMsg => gc_result.kind = "RuntimeError"
        /\ gc_result.kind = "False" => (~gc_raise /\ gc_result.msg \in FailTestMsgs)
        /\ gc_result.kind = "True" =>
              /\ gc_i = Len(gc_out)
              /\ \A j \in 1..Len(gc_grads) :
                    \/ gc_grads[j].none
                    \/ /\ \A k \in 1..Len(gc_grads[j].val) : gc_grads[j].val[k] = Integer(0)
                       /\ gc_grads[j].type_ok
                       /\ gc_grads[j].size_ok

\* with raise_exception false, gradcheck has raised for want of a tensor
\* requiring grad
C6_Witness ==
    /\ gc_pc = "done"
    /\ ~gc_raise
    /\ gc_result.msg = NoTensorsMsg
    /\ gc_result.kind = "RuntimeError"

\* the statement of C7: get_analytical_jacobian returns reentrant=False iff
\* the two jacobians differ in an entry for an input with a non-empty jacobian
C7_ReentrantIff ==
    [][gc_pc = "reentrant" =>
          ((gc_reentrant' = FALSE) <=>
              \E j \in 1..Len(gc_in) :
                  /\ gc_in[j] * gc_out[gc_i] # 0
                  /\ \E r \in 1..gc_in[j], c \in 1..gc_out[gc_i] :
                        gc_jac[j][r][c] # gc_jac_re[j][r][c])
      ]_vars

(***************************************************************************)
(* scan(combine_fn, input, dim, reverse) and generic_scan.  The leaves are *)
(* tensors of one dimension, scanned along dim 0.                          *)
(***************************************************************************)

\* the implementation behind scan_op(combine_fn, leaves, dim): the kernels
\* of the compiled operator are not part of this code; they are held to the
\* reference loop generic_scan
scan_op_impl == "generic_scan"

\* torch.flip(elem, [dim])
RECURSIVE flip(_)
flip(elem) == IF elem = <<>> THEN <<>> ELSE Append(flip(Tail(elem)), Head(elem))

\* aten.slice(elem, dim, start, end, 1)
slice(elem, start, end) ==
    SubSeq(elem, start + 1, IF end < Len(elem) THEN end ELSE Len(elem))

\* wrap_combine_fn_flat(*args): combine_fn on the leaves of lhs and of rhs
combine_fn(f, lhs, rhs) ==
    [l \in 1..Len(lhs) |->
        <<CASE f = "add" -> lhs[l][1] + rhs[l][1]
            [] f = "sub" -> lhs[l][1] - rhs[l][1]
            [] f = "cross" -> lhs[l][1] + 2 * rhs[Len(rhs) + 1 - l][1]>>]

ScanFns == {"add", "sub", "cross"}

\* leaves of one shape, and leaves the last of which is one entry short
EvenInputs ==
    UNION {[1..p[1] -> [1..p[2] -> 1..MaxScanVal]] :
              p \in {q \in (0..MaxLeaves) \X (0..MaxScanLen) :
                         q[1] * q[2] <= MaxScanEntries}}

ScanInputs ==
    EvenInputs \cup
    {[x EXCEPT ![Len(x)] = Tail(x[Len(x)])] :
        x \in {y \in EvenInputs : Len(y) >= 2 /\ Len(y[1]) >= 1}}

SameShape(leaves) ==
    \A l \in 1..Len(leaves) : Len(leaves[l]) = Len(leaves[1])

InitSC ==
    /\ sc_pc = "start"
    /\ sc_fn \in ScanFns
    /\ sc_input \in ScanInputs
    /\ sc_reverse \in BOOLEAN
    /\ sc_elems = <<>>
    /\ sc_ind = 0
    /\ sc_xs = <<>>
    /\ sc_outs = <<>>
    /\ sc_calls = <<>>
    /\ sc_result = <<>>
    /\ IdleVR /\ IdleNJ /\ IdleGC /\ IdleWL /\ IdleIE /\ IdleEN /\ IdleWM
    /\ IdleAM /\ IdleAC /\ IdleAW /\ IdleCM /\ IdleRD /\ IdleCB /\ IdleSY

\* lines 115-135: the leaves, flipped when reverse; the assertions on them;
\* the call of scan_op
SC_Scan ==
    /\ sc_pc = "start"
    /\ IF Len(sc_input) >= 1 /\ SameShape(sc_input)
       THEN /\ sc_elems' = [l \in 1..Len(sc_input) |->
                               IF sc_reverse THEN flip(sc_input[l]) ELSE sc_input[l]]
            /\ sc_pc' = "scan_op"
       ELSE /\ sc_pc' = "AssertionError"
            /\ UNCHANGED sc_elems
    /\ UNCHANGED <<sc_fn, sc_input, sc_reverse, sc_ind, sc_xs, sc_outs, sc_calls,
                   sc_result, notSC>>

\* lines 153-157: num_elems, ind = 1, xs the first slices, outs = xs
SC_Begin ==
    /\ sc_pc = "scan_op"
    /\ scan_op_impl = "generic_scan"
    /\ sc_ind' = 1
    /\ sc_xs' = [l \in 1..Len(sc_elems) |-> slice(sc_elems[l], 0, 1)]
    /\ sc_outs' = sc_xs'
    /\ sc_pc' = "_scan"
    /\ UNCHANGED <<sc_fn, sc_input, sc_reverse, sc_elems, sc_calls, sc_result, notSC>>

\* the step of lines 158-165 with the arguments of operator exchanged
SC_StepSwapped ==
    /\ sc_pc = "_scan"
    /\ sc_ind < Len(sc_elems[1])
    /\ sc_xs' = combine_fn(sc_fn,
                           [l \in 1..Len(sc_elems) |->
                               slice(sc_elems[l], sc_ind, sc_ind + 1)],
                           sc_xs)
    /\ sc_calls' = Append(sc_calls, sc_ind)
    /\ sc_ind' = sc_ind + 1
    /\ sc_outs' = [l \in 1..Len(sc_outs) |-> sc_outs[l] \o sc_xs'[l]]
    /\ UNCHANGED <<sc_pc, sc_fn, sc_input, sc_reverse, sc_elems, sc_result, notSC>>

\* lines 158-165: xs = operator(*xs, *slices at ind); ind += 1;
\* outs = the concatenation of outs and xs
SC_Step ==
    /\ sc_pc = "_scan"
    /\ sc_ind < Len(sc_elems[1])
    /\ sc_xs' = combine_fn(sc_fn, sc_xs,
                           [l \in 1..Len(sc_elems) |->
                               slice(sc_elems[l], sc_ind, sc_ind + 1)])
    /\ sc_calls' = Append(sc_calls, sc_ind)
    /\ sc_ind' = sc_ind + 1
    /\ sc_outs' = [l \in 1..Len(sc_outs) |-> sc_outs[l] \o sc_xs'[l]]
    /\ UNCHANGED <<sc_pc, sc_fn, sc_input, sc_reverse, sc_elems, sc_result, notSC>>

\* lines 167-172 and 137-140: generic_scan returns outs; scan flips the
\* result back when reverse and returns it
SC_Return ==
    /\ sc_pc = "_scan"
    /\ ~(sc_ind < Len(sc_elems[1]))
    /\ sc_result' = [l \in 1..Len(sc_outs) |->
                        IF sc_reverse THEN flip(sc_outs[l]) ELSE sc_outs[l]]
    /\ sc_pc' = "done"
    /\ UNCHANGED <<sc_fn, sc_input, sc_reverse, sc_elems, sc_ind, sc_xs, sc_outs,
                   sc_calls, notSC>>

NextSC ==
    \/ SC_Scan
    \/ SC_Begin
    \/ SC_Step
    \/ SC_Return

SpecSC == InitSC /\ [][NextSC]_vars

\* the combination of the slices 1..k of the leaves x, from the left
RECURSIVE C8_Prefix(_, _, _)
C8_Prefix(f, x, k) ==
    IF k = 1 THEN [l \in 1..Len(x) |-> <<x[l][1]>>]
    ELSE combine_fn(f, C8_Prefix(f, x, k - 1), [l \in 1..Len(x) |-> <<x[l][k]>>])

\* the reversal of a tensor along dim
C8_Rev(t) == [k \in 1..Len(t) |-> t[Len(t) + 1 - k]]

\* C8: for n >= 1 slices, generic_scan returns outs of length n with
\* out[0] = x[0] and out[k] = combine_fn(out[k-1], x[k]), calling the
\* operator n - 1 times at ind = 1, ..., n - 1 in this order; scan with
\* reverse returns the reversal of this result for the reversed input; add
\* over [1,2,3,4] gives [1,3,6,10], and [10,9,7,4] with reverse
C8_ScanReference ==
    (sc_pc = "done" /\ Len(sc_input[1]) >= 1) =>
        LET n == Len(sc_input[1])
            x == [l \in 1..Len(sc_input) |->
                     IF sc_reverse THEN C8_Rev(sc_input[l]) ELSE sc_input[l]]
        IN  /\ \A l \in 1..Len(x) :
                  /\ Len(sc_outs[l]) = n
                  /\ \A k \in 1..n : sc_outs[l][k] = C8_Prefix(sc_fn, x, k)[l][1]
                  /\ sc_result[l] = (IF sc_reverse THEN C8_Rev(sc_outs[l]) ELSE sc_outs[l])
            /\ sc_calls = [k \in 1..n - 1 |-> k]
            /\ (sc_fn = "add" /\ sc_input = <<(<<1, 2, 3, 4>>)>>) =>
                  sc_result = (IF sc_reverse THEN <<(<<10, 9, 7, 4>>)>>
                               ELSE <<(<<1, 3, 6, 10>>)>>)

\* the reversed running sum of [1,2,3,4] was returned
C8_Witness ==
    /\ sc_pc = "done"
    /\ sc_fn = "add"
    /\ sc_reverse
    /\ sc_input = <<(<<1, 2, 3, 4>>)>>
    /\ sc_calls = <<1, 2, 3>>
    /\ sc_result = <<(<<10, 9, 7, 4>>)>>

(***************************************************************************)
(* while_loop_node and if_else_node.  Both are called while a CUDA graph   *)
(* is captured: the kernels they launch are recorded, and run when the     *)
(* graph is replayed.  cond_fn, body_fn, true_fn and false_fn return new   *)
(* tensors; a function whose outputs alias its inputs is not a supported   *)
(* argument of these operators (utils.py, _has_potential_branch_input_     *)
(* alias).                                                                 *)
(***************************************************************************)

\* the replay of a conditional node captured by begin_capture_to_if_node or
\* begin_capture_to_while_loop_node: its body is run when, and for a while
\* node as long as, the value of its condition is true
conditional_body_runs(handle) == handle

\* what a call of cond_fn may return: a boolean scalar cuda tensor, the same
\* on the cpu, an integer scalar, a boolean vector, something else
Pred(t, s, b, c) == [is_tensor |-> t, scalar |-> s, bool |-> b, is_cuda |-> c]

Preds ==
    {Pred(TRUE, TRUE, TRUE, TRUE), Pred(TRUE, TRUE, TRUE, FALSE),
     Pred(TRUE, TRUE, FALSE, TRUE), Pred(TRUE, FALSE, TRUE, TRUE),
     Pred(FALSE, FALSE, FALSE, FALSE)}

is_boolean_scalar_cuda_tensor(pred) ==
    pred.is_tensor /\ pred.scalar /\ pred.bool /\ pred.is_cuda

\* cond_fn(*carried_vals, *additional_inputs): carried[0] < limit
cond_fn(vals, limit) == vals[1] < limit

\* body_fn(*carried_vals, *additional_inputs), as new tensors
body_fn(body, vals) ==
    [k \in 1..Len(vals) |->
        CASE body = "inc" -> IF k = 1 THEN vals[1] + 1 ELSE vals[k] + vals[1]
          [] body = "inc2" -> IF k = 1 THEN vals[1] + 2 ELSE vals[k] + vals[1]
          [] OTHER -> 0]

WhileBodies == {"inc", "inc2", "zero", "not_tuple", "short"}

\* lines 159-160: for c, o in zip(carried_vals, out): c.copy_(o), from index k on
RECURSIVE copy_(_, _, _)
copy_(vals, out, k) ==
    IF k > Len(vals) \/ k > Len(out) THEN vals
    ELSE copy_([vals EXCEPT ![k] = out[k]], out, k + 1)

InitWL ==
    /\ wl_pc = "start"
    /\ wl_is_tuple \in BOOLEAN
    /\ wl_pred \in [1..2 -> Preds]
    /\ wl_limit \in 0..MaxLimit
    /\ wl_body \in WhileBodies
    /\ wl_vals0 \in UNION {[1..n -> 0..MaxStart] : n \in 1..MaxCarried}
    /\ wl_vals = wl_vals0
    /\ wl_handle = FALSE
    /\ wl_count = 0
    /\ wl_err = ""
    /\ wl_log = <<>>
    /\ IdleVR /\ IdleNJ /\ IdleGC /\ IdleSC /\ IdleIE /\ IdleEN /\ IdleWM
    /\ IdleAM /\ IdleAC /\ IdleAW /\ IdleCM /\ IdleRD /\ IdleCB /\ IdleSY

\* while_loop_node with the two assertions on the result of body_fn placed
\* after the copies
while_loop_node_late(is_tuple, pred, body, n) ==
    LET copies == [k \in 1..n |-> "copy_"]
        begun == <<"cond_fn", "begin_capture_to_while_loop_node", "body_fn">>
        ended == <<"end_capture_to_conditional_node">>
    IN  IF ~is_tuple
        THEN [err |-> "RuntimeError: carried_inputs must be a tuple", log |-> <<>>]
        ELSE IF ~is_boolean_scalar_cuda_tensor(pred[1])
        THEN [err |-> "RuntimeError: cond_fn must return a boolean scalar cuda tensor",
              log |-> <<"cond_fn">>]
        ELSE IF body = "not_tuple"
        THEN [err |-> "AssertionError: body_fn should return a tuple",
              log |-> begun \o copies \o ended]
        ELSE IF body = "short"
        THEN [err |-> "AssertionError: body_fn should return the same number of elements as carried_inputs",
              log |-> begun \o copies \o ended]
        ELSE IF ~is_boolean_scalar_cuda_tensor(pred[2])
        THEN [err |-> "RuntimeError: cond_fn must return a boolean scalar tensor",
              log |-> begun \o copies \o <<"cond_fn">> \o ended]
        ELSE [err |-> "",
              log |-> begun \o copies \o <<"cond_fn", "set_conditional_handle">>
                      \o ended \o <<"return">>]

\* lines 138-171 as run during capture: the checks on carried_inputs, on
\* the two results of cond_fn and on the result of body_fn, and the calls
\* made up to the exception or the return; the with statement ends the
\* capture of the body also when an exception leaves it; n is the number
\* of carried tensors
while_loop_node(is_tuple, pred, body, n) ==
    LET copies == [k \in 1..n |-> "copy_"]
        begun == <<"cond_fn", "begin_capture_to_while_loop_node", "body_fn">>
        ended == <<"end_capture_to_conditional_node">>
    IN  IF ~is_tuple
        THEN [err |-> "RuntimeError: carried_inputs must be a tuple", log |-> <<>>]
        ELSE IF ~is_boolean_scalar_cuda_tensor(pred[1])
        THEN [err |-> "RuntimeError: cond_fn must return a boolean scalar cuda tensor",
              log |-> <<"cond_fn">>]
        ELSE IF body = "not_tuple"
        THEN [err |-> "AssertionError: body_fn should return a tuple",
              log |-> begun \o ended]
        ELSE IF body = "short"
        THEN [err |-> "AssertionError: body_fn should return the same number of elements as carried_inputs",
              log |-> begun \o ended]
        ELSE IF ~is_boolean_scalar_cuda_tensor(pred[2])
        THEN [err |-> "RuntimeError: cond_fn must return a boolean scalar tensor",
              log |-> begun \o copies \o <<"cond_fn">> \o ended]
        ELSE [err |-> "",
              log |-> begun \o copies \o <<"cond_fn", "set_conditional_handle">>
                      \o ended \o <<"return">>]

WL_Capture ==
    /\ wl_pc = "start"
    /\ wl_err' = while_loop_node(wl_is_tuple, wl_pred, wl_body, Len(wl_vals0)).err
    /\ wl_log' = while_loop_node(wl_is_tuple, wl_pred, wl_body, Len(wl_vals0)).log
    /\ wl_pc' = IF wl_err' = "" THEN "captured" ELSE "raised"
    /\ UNCHANGED <<wl_is_tuple, wl_pred, wl_limit, wl_body, wl_vals0, wl_vals,
                   wl_handle, wl_count, notWL>>

\* line 145 and 150 on replay: the kernels of the first cond_fn run and the
\* while node is entered with their result
WL_Launch ==
    /\ wl_pc = "captured"
    /\ wl_handle' = cond_fn(wl_vals, wl_limit)
    /\ wl_pc' = "node"
    /\ UNCHANGED <<wl_is_tuple, wl_pred, wl_limit, wl_body, wl_vals0, wl_vals,
                   wl_count, wl_err, wl_log, notWL>>

\* the body of the while node without the second call of cond_fn
WL_BodyStale ==
    /\ wl_pc = "node"
    /\ conditional_body_runs(wl_handle)
    /\ wl_count < MaxIter
    /\ wl_vals' = copy_(wl_vals, body_fn(wl_body, wl_vals), 1)
    /\ wl_count' = wl_count + 1
    /\ UNCHANGED <<wl_pc, wl_is_tuple, wl_pred, wl_limit, wl_body, wl_vals0,
                   wl_handle, wl_err, wl_log, notWL>>

\* lines 151-169 on replay, one execution of the body of the while node:
\* body_fn, the copies into carried_vals, cond_fn, set_conditional_handle
WL_Body ==
    /\ wl_pc = "node"
    /\ conditional_body_runs(wl_handle)
    /\ wl_count < MaxIter
    /\ wl_vals' = copy_(wl_vals, body_fn(wl_body, wl_vals), 1)
    /\ wl_handle' = cond_fn(wl_vals', wl_limit)
    /\ wl_count' = wl_count + 1
    /\ UNCHANGED <<wl_pc, wl_is_tuple, wl_pred, wl_limit, wl_body, wl_vals0,
                   wl_err, wl_log, notWL>>

\* the while node is left; carried_vals, returned at line 171, hold the result
WL_Exit ==
    /\ wl_pc = "node"
    /\ ~conditional_body_runs(wl_handle)
    /\ wl_pc' = "done"
    /\ UNCHANGED <<wl_is_tuple, wl_pred, wl_limit, wl_body, wl_vals0, wl_vals,
                   wl_handle, wl_count, wl_err, wl_log, notWL>>

NextWL ==
    \/ WL_Capture
    \/ WL_Launch
    \/ WL_Body
    \/ WL_Exit

SpecWL == InitWL /\ [][NextWL]_vars

\* C9: cond_fn is evaluated on the carried values before the first
\* execution of the body; the body runs only while the latest result of
\* cond_fn is true, its results become the carried values and cond_fn is
\* evaluated on them; the loop stops in the first state where cond_fn is
\* false, without a further execution of the body; with i < 5, i + 1 and
\* i = 0 it stops with i = 5 after exactly 5 executions
C9_WhileLoopContract ==
    [][/\ (wl_pc = "captured" /\ wl_pc' = "node") =>
            /\ wl_count' = 0
            /\ wl_vals' = wl_vals0
            /\ wl_handle' = (wl_vals0[1] < wl_limit)
       /\ (wl_count' # wl_count) =>
            /\ wl_pc = "node"
            /\ wl_handle
            /\ wl_vals[1] < wl_limit
            /\ wl_count' = wl_count + 1
            /\ wl_vals' = body_fn(wl_body, wl_vals)
            /\ wl_handle' = (wl_vals'[1] < wl_limit)
       /\ (wl_pc = "node" /\ ~(wl_vals[1] < wl_limit)) =>
            /\ wl_pc' = "done"
            /\ wl_count' = wl_count
            /\ wl_vals' = wl_vals
       /\ (wl_pc' = "done") => ~(wl_vals'[1] < wl_limit)
       /\ (wl_pc' = "done" /\ wl_body = "inc" /\ wl_limit = 5 /\ wl_vals0 = <<0>>) =>
            (wl_vals' = <<5>> /\ wl_count' = 5)
      ]_vars

\* the loop i < 5, i + 1 from i = 0 has stopped with i = 5 after 5 executions
C9_Witness ==
    /\ wl_pc = "done"
    /\ wl_body = "inc"
    /\ wl_limit = 5
    /\ wl_vals0 = <<0>>
    /\ wl_vals = <<5>>
    /\ wl_count = 5

\* true_fn(*operands) and false_fn(*operands), as new tensors
branch_fn(f, ops) ==
    CASE f = "inc" -> <<ops[1] + 1, ops[2] + 1>>
      [] f = "sum" -> <<ops[1] + ops[2], ops[1] - ops[2]>>
      [] OTHER -> <<0, 0>>

BranchFns == {"inc", "sum", "zero"}

\* torch.logical_not(pred) replaced by pred
logical_not_id(pred) == pred

\* torch.logical_not(pred)
logical_not(pred) == ~pred

InitIE ==
    /\ ie_pc = "start"
    /\ ie_is_cuda \in BOOLEAN
    /\ ie_pred \in BOOLEAN
    /\ ie_true \in BranchFns
    /\ ie_false \in BranchFns
    /\ ie_ops \in [1..2 -> 0..MaxOperand]
    /\ ie_outs0 \in [1..2 -> 0..MaxOperand]
    /\ ie_outs1 \in [1..2 -> 0..MaxOperand]
    /\ ie_ran = {}
    /\ IdleVR /\ IdleNJ /\ IdleGC /\ IdleSC /\ IdleWL /\ IdleEN /\ IdleWM
    /\ IdleAM /\ IdleAC /\ IdleAW /\ IdleCM /\ IdleRD /\ IdleCB /\ IdleSY

\* lines 103-125 as run during capture: the check of pred, the two bodies
\* recorded; the tensors of outs hold what their memory held
IE_Capture ==
    /\ ie_pc = "start"
    /\ ie_pc' = IF ie_is_cuda THEN "captured" ELSE "ValueError"
    /\ UNCHANGED <<ie_is_cuda, ie_pred, ie_true, ie_false, ie_ops, ie_outs0,
                   ie_outs1, ie_ran, notIE>>

\* lines 115-116 on replay: the body guarded by pred, outs[0] = true_fn(*operands)
IE_If ==
    /\ ie_pc = "captured"
    /\ IF conditional_body_runs(ie_pred)
       THEN /\ ie_outs0' = branch_fn(ie_true, ie_ops)
            /\ ie_ran' = ie_ran \cup {"if"}
       ELSE UNCHANGED <<ie_outs0, ie_ran>>
    /\ ie_pc' = "else"
    /\ UNCHANGED <<ie_is_cuda, ie_pred, ie_true, ie_false, ie_ops, ie_outs1, notIE>>

\* lines 113-123 on replay: the body guarded by logical_not(pred),
\* outs[1] = false_fn(*operands) and the copies of outs[1] into outs[0]
IE_Else ==
    /\ ie_pc = "else"
    /\ IF conditional_body_runs(logical_not(ie_pred))
       THEN /\ ie_outs1' = branch_fn(ie_false, ie_ops)
            /\ ie_outs0' = copy_(ie_outs0, ie_outs1', 1)
            /\ ie_ran' = ie_ran \cup {"else"}
       ELSE UNCHANGED <<ie_outs0, ie_outs1, ie_ran>>
    /\ ie_pc' = "done"
    /\ UNCHANGED <<ie_is_cuda, ie_pred, ie_true, ie_false, ie_ops, notIE>>

NextIE ==
    \/ IE_Capture
    \/ IE_If
    \/ IE_Else

SpecIE == InitIE /\ [][NextIE]_vars

\* C10: whatever pred holds on replay, exactly one of the two bodies has
\* run, the one guarded by pred when it is true and the one guarded by
\* logical_not(pred) when it is false, and the returned tensors outs[0]
\* hold true_fn(*operands) in the first case and false_fn(*operands) in the
\* second
C10_ExactlyOneBranch ==
    ie_pc = "done" =>
        /\ Cardinality(ie_ran) = 1
        /\ ie_ran = (IF ie_pred THEN {"if"} ELSE {"else"})
        /\ ie_outs0 = (IF ie_pred THEN branch_fn(ie_true, ie_ops)
                       ELSE branch_fn(ie_false, ie_ops))

\* pred was false on replay: only the else body ran and the returned
\* tensors hold the result of false_fn, which is not that of true_fn
C10_Witness ==
    /\ ie_pc = "done"
    /\ ~ie_pred
    /\ ie_ran = {"else"}
    /\ ie_outs0 = branch_fn(ie_false, ie_ops)
    /\ ie_outs0 # branch_fn(ie_true, ie_ops)

(***************************************************************************)
(* The reverse-mode engine behind backward(), and zero_gradients.  The     *)
(* engine is not part of this code; it is modelled as the specification    *)
(* describes it: every node waits for the contributions of its consumers,  *)
(* contributions are summed, leaves accumulate into .grad.  The graph is   *)
(* acyclic: a node consumes nodes of smaller index only.                   *)
(***************************************************************************)
Pairs(n) == {p \in (1..n) \X (1..n) : p[1] > p[2]}

\* the backward rule of c multiplies the gradient it was given by c - p
\* for its input p: the graphs are the sets of at most MaxEdges edges, held
\* as the factors of their edges, 0 where there is none
Graphs(n) ==
    {[p \in Pairs(n) |-> IF p \in E THEN p[1] - p[2] ELSE 0] :
        E \in {F \in SUBSET Pairs(n) : Cardinality(F) <= MaxEdges}}

\* the nodes that consume the output of p
consumers(w, n, p) == {c \in p + 1..n : w[<<c, p>>] # 0}

\* v lies on a path from the output
RECURSIVE reachable(_, _, _)
reachable(w, n, v) ==
    v = n \/ \E c \in consumers(w, n, v) : reachable(w, n, c)

\* the number of contributions each node has to wait for
dependencies(w, n) ==
    [v \in 1..n |-> Cardinality({c \in consumers(w, n, v) : reachable(w, n, c)})]

\* v was recorded without inputs: a leaf tensor
is_leaf(w, v) == \A p \in 1..v - 1 : w[<<v, p>>] = 0

\* a node may run as soon as one consumer has contributed
ready_eager(v) ==
    v = en_n \/ en_deps[v] < dependencies(en_w, en_n)[v]

\* a node may run when every consumer has contributed
ready(v) == en_deps[v] = 0

\* a leaf's .grad is set when None, else added to
accumulate(has, grad, g) == IF has THEN grad + g ELSE g

\* the arguments of zero_gradients: a tensor, an iterable, something else
Tensor(i) == [kind |-> "tensor", id |-> i, elems |-> <<>>]
Iter(elems) == [kind |-> "iterable", id |-> 0, elems |-> elems]
Other == [kind |-> "other", id |-> 0, elems |-> <<>>]

ZeroArgs(n) ==
    {Tensor(i) : i \in 1..n} \cup {Other, Iter(<<>>)}
    \cup {Iter(<<Tensor(i), Tensor(i + 1)>>) : i \in 1..n - 1}
    \cup {Iter(<<Other, Iter(<<Tensor(p[2]), Iter(<<Tensor(p[1])>>)>>)>>) : p \in Pairs(n)}

\* zero_gradients that does not descend into the elements of an iterable
\* that are themselves iterables
zero_gradients_shallow(x, has, grad) ==
    IF x.kind = "tensor"
    THEN (IF has[x.id] THEN [grad EXCEPT ![x.id] = 0] ELSE grad)
    ELSE [v \in DOMAIN grad |->
             IF has[v] /\ \E k \in 1..Len(x.elems) : x.elems[k] = Tensor(v)
             THEN 0 ELSE grad[v]]

\* zero_gradients(x): .grad of x zeroed when x is a tensor whose .grad is
\* not None; each element in turn when x is an iterable; else nothing
RECURSIVE zero_gradients(_, _, _)
zero_gradients(x, has, grad) ==
    IF x.kind = "tensor"
    THEN (IF has[x.id] THEN [grad EXCEPT ![x.id] = 0] ELSE grad)
    ELSE IF x.kind = "iterable" /\ x.elems # <<>>
    THEN zero_gradients(Iter(Tail(x.elems)), has,
                        zero_gradients(Head(x.elems), has, grad))
    ELSE grad

\* the tensors found in x, at any depth
RECURSIVE TensorsOf(_)
TensorsOf(x) ==
    IF x.kind = "tensor" THEN {x.id}
    ELSE UNION {TensorsOf(x.elems[k]) : k \in 1..Len(x.elems)}

InitEN ==
    /\ en_pc = "ready"
    /\ en_n \in 1..MaxNodes
    /\ en_w \in Graphs(en_n)
    /\ en_retain \in BOOLEAN
    /\ en_freed = FALSE
    /\ en_deps = [v \in 1..en_n |-> 0]
    /\ en_buf = [v \in 1..en_n |-> 0]
    /\ en_done = {}
    /\ en_has = [v \in 1..en_n |-> FALSE]
    /\ en_grad = [v \in 1..en_n |-> 0]
    /\ en_cnt = [v \in 1..en_n |-> 0]
    /\ en_calls = 0
    /\ IdleVR /\ IdleNJ /\ IdleGC /\ IdleSC /\ IdleWL /\ IdleIE /\ IdleWM
    /\ IdleAM /\ IdleAC /\ IdleAW /\ IdleCM /\ IdleRD /\ IdleCB /\ IdleSY

\* backward(output, retain_graph=en_retain): the gradient of the output
\* defaults to ones; a graph whose edges were freed cannot be run again
EN_Backward ==
    /\ en_pc = "ready"
    /\ en_calls < MaxCalls
    /\ en_calls' = en_calls + 1
    /\ IF en_freed
       THEN /\ en_pc' = "raised"
            /\ UNCHANGED <<en_deps, en_buf, en_done>>
       ELSE /\ en_pc' = "running"
            /\ en_deps' = dependencies(en_w, en_n)
            /\ en_buf' = [v \in 1..en_n |-> IF v = en_n THEN 1 ELSE 0]
            /\ en_done' = {}
    /\ UNCHANGED <<en_n, en_w, en_retain, en_freed, en_has, en_grad, en_cnt, notEN>>

\* the backward rule of a node that is ready is invoked with the gradient
\* accumulated for it: each input receives its contribution; a leaf
\* accumulates into .grad
EN_Run ==
    /\ en_pc = "running"
    /\ \E v \in 1..en_n :
        /\ v \notin en_done
        /\ reachable(en_w, en_n, v)
        /\ ready(v)
        /\ en_done' = en_done \cup {v}
        /\ en_buf' = [p \in 1..en_n |->
                         IF p < v THEN en_buf[p] + en_w[<<v, p>>] * en_buf[v]
                         ELSE en_buf[p]]
        /\ en_deps' = [p \in 1..en_n |->
                          IF p < v /\ en_w[<<v, p>>] # 0 THEN en_deps[p] - 1
                          ELSE en_deps[p]]
        /\ IF is_leaf(en_w, v)
           THEN /\ en_grad' = [en_grad EXCEPT ![v] = accumulate(en_has[v], en_grad[v], en_buf[v])]
                /\ en_has' = [en_has EXCEPT ![v] = TRUE]
                /\ en_cnt' = [en_cnt EXCEPT ![v] = en_cnt[v] + 1]
           ELSE UNCHANGED <<en_grad, en_has, en_cnt>>
    /\ UNCHANGED <<en_pc, en_n, en_w, en_retain, en_freed, en_calls, notEN>>

\* every node on a path from the output has run: backward() returns, the
\* edges being freed unless retain_graph
EN_Finish ==
    /\ en_pc = "running"
    /\ \A v \in 1..en_n : reachable(en_w, en_n, v) => v \in en_done
    /\ en_pc' = "ready"
    /\ en_freed' = ~en_retain
    /\ UNCHANGED <<en_n, en_w, en_retain, en_deps, en_buf, en_done, en_has,
                   en_grad, en_cnt, en_calls, notEN>>

\* zero_gradients(x) between two calls of backward()
EN_ZeroGradients ==
    /\ en_pc = "ready"
    /\ \E x \in ZeroArgs(en_n) :
        /\ en_grad' = zero_gradients(x, en_has, en_grad)
        /\ en_cnt' = [v \in 1..en_n |->
                         IF v \in TensorsOf(x) /\ en_has[v] THEN 0 ELSE en_cnt[v]]
    /\ UNCHANGED <<en_pc, en_n, en_w, en_retain, en_freed, en_deps, en_buf,
                   en_done, en_has, en_calls, notEN>>

NextEN ==
    \/ EN_Backward
    \/ EN_Run
    \/ EN_Finish
    \/ EN_ZeroGradients

SpecEN == InitEN /\ [][NextEN]_vars

\* the gradient of the output with respect to v: over the consumers of v,
\* the sum of their gradients times their factors
RECURSIVE C11_Gradient(_)
C11_Gradient(v) ==
    IF v = en_n THEN 1
    ELSE LET cs == {c \in v + 1..en_n : en_w[<<c, v>>] # 0}
             RECURSIVE Sum(_)
             Sum(S) == IF S = {} THEN 0
                       ELSE LET c == CHOOSE c \in S : TRUE
                            IN  (IF reachable(en_w, en_n, c)
                                 THEN en_w[<<c, v>>] * C11_Gradient(c) ELSE 0)
                                + Sum(S \ {c})
         IN  Sum(cs)

\* C11: in every interleaving, a node whose backward rule was invoked has
\* had the contribution of every consumer that lies on a path from the
\* output, and the gradient it was invoked with is the sum of these
\* contributions, whatever the order of their arrival
C11_BackwardOrdering ==
    en_pc = "running" =>
        \A v \in en_done :
            /\ \A c \in v + 1..en_n :
                  (en_w[<<c, v>>] # 0 /\ reachable(en_w, en_n, c)) => c \in en_done
            /\ en_buf[v] = C11_Gradient(v)

\* in a diamond one of the two independent branches has contributed to the
\* shared producer, which waits for the other
C11_Witness ==
    /\ en_pc = "running"
    /\ en_n = 4
    /\ en_w[<<4, 3>>] = 1 /\ en_w[<<4, 2>>] = 2
    /\ en_w[<<3, 1>>] = 2 /\ en_w[<<2, 1>>] = 1
    /\ en_done = {4, 2}
    /\ en_deps[1] = 1
    /\ en_buf[1] = 2

\* C12: between calls, the .grad of a leaf is the gradient of one call
\* times the number of backward() calls since it was last zeroed (k calls
\* without a reset give k times the gradient, a call after zero_gradients
\* gives the gradient of one call again); zero_gradients zeroes the .grad
\* of every tensor found in its argument at any depth, and a .grad that is
\* None stays None
C12_AccumulateAndZero ==
    [][/\ en_pc' = "ready" =>
            \A v \in 1..en_n :
                IF en_has'[v]
                THEN en_grad'[v] = en_cnt'[v] * C11_Gradient(v)
                ELSE en_grad'[v] = 0 /\ en_cnt'[v] = 0
       /\ (en_pc = "ready" /\ en_pc' = "ready") =>
            /\ en_has' = en_has
            /\ \A v \in 1..en_n : en_grad'[v] \in {0, en_grad[v]}
      ]_vars

\* two calls on a retained graph, one leaf zeroed in a nested iterable
\* between them and one never zeroed
C12_Witness ==
    /\ en_pc = "ready"
    /\ en_calls = 2
    /\ en_retain
    /\ \E u \in 1..en_n, v \in 1..en_n :
        /\ en_has[u] /\ en_cnt[u] = 2 /\ en_grad[u] = 2 * C11_Gradient(u)
        /\ en_grad[u] > 0
        /\ en_has[v] /\ en_cnt[v] = 1 /\ en_grad[v] = C11_Gradient(v)
        /\ en_grad[v] > 0

(***************************************************************************)
(* The range rules, case by case.                                          *)
(***************************************************************************)
\* the numeric range (l, u) as an object
NumRange(l, u) == [exc |-> "none", lower |-> l, upper |-> u, is_bool |-> FALSE]

\* the boolean range (l, u) as an object
BoolRange(l, u) == [exc |-> "none", lower |-> l, upper |-> u, is_bool |-> TRUE]

\* r is x mod y: congruent to x modulo y, between 0 and y, y excluded
IsMod(x, y, r) ==
    /\ IF y > 0 THEN 0 <= r /\ r < y ELSE y < r /\ r <= 0
    /\ \E q \in -(IAbs(x) + 1)..(IAbs(x) + 1) : x = q * y + r

\* C13: mod(x, y) is the singleton x mod y when x and y are singletons of
\* integers and y # 0; otherwise it is unknown() when y.lower <= 0, and
\* otherwise exactly (0, y.upper); mod((-10, 10), (3, 3)) is (0, 3)
C13_ModRule ==
    /\ vr_op = "mod" =>
          IF is_singleton(vr_a) /\ is_singleton(vr_b) /\ vr_b.lower # Integer(0)
          THEN (is_finite(vr_a.lower) /\ is_finite(vr_b.lower)) =>
                  \E r \in -IAbs(vr_b.lower[1])..IAbs(vr_b.lower[1]) :
                      /\ IsMod(vr_a.lower[1], vr_b.lower[1], r)
                      /\ vr_res = NumRange(Integer(r), Integer(r))
          ELSE IF LeV(vr_b.lower, Integer(0))
          THEN vr_res = NumRange(noo, oo)
          ELSE vr_res = NumRange(Integer(0), vr_b.upper)
    /\ mod(NumRange(Integer(-10), Integer(10)), NumRange(Integer(3), Integer(3)))
          = NumRange(Integer(0), Integer(3))

\* a range of both signs modulo a positive singleton
C13_Witness ==
    /\ vr_op = "mod"
    /\ vr_a = NumRange(Integer(-2), Integer(2))
    /\ vr_b = NumRange(Integer(2), Integer(2))
    /\ vr_res = NumRange(Integer(0), Integer(2))

\* the quotient of two bounds under the operator of the rule
Quotient(op, x, y) == IF op = "truediv" THEN DivV(x, y) ELSE FloorDivV(x, y)

\* the four corner quotients of {a.lower, a.upper} x {b.lower, b.upper}
Corners(op, a, b) ==
    {Quotient(op, x, y) : x \in {a.lower, a.upper}, y \in {b.lower, b.upper}}

\* r is (min, max) over the set of values S, none of them undefined
IsMinMax(r, S) ==
    /\ \A c \in S : c # nan /\ c # zoo
    /\ ~Raised(r)
    /\ r.lower \in S /\ r.upper \in S
    /\ \A c \in S : LeV(r.lower, c) /\ LeV(c, r.upper)

HasZero(b) == LeV(b.lower, Integer(0)) /\ LeV(Integer(0), b.upper)

HasInfinity(a) == a.lower = noo \/ a.upper = oo \/ a.lower = oo \/ a.upper = noo

\* C14 as stated: the result is unknown() if 0 is in the divisor or both
\* operands are (-oo, oo), and in every other case (min, max) over the four
\* corner quotients, all of them defined
C14_Original ==
    (vr_op \in {"truediv", "floordiv"}) =>
        IF HasZero(vr_b) \/ (vr_a = NumRange(noo, oo) /\ vr_b = NumRange(noo, oo))
        THEN vr_res = NumRange(noo, oo)
        ELSE IsMinMax(vr_res, Corners(vr_op, vr_a, vr_b))

\* C14: truediv(a, b) and floordiv(a, b) are unknown() if 0 is in the
\* divisor or if the dividend has an infinite bound and the divisor has an
\* infinite bound, and in every other case (min, max) over the four corner
\* quotients, all of them defined (neither nan nor zoo)
C14_DivisionRule ==
    (vr_op \in {"truediv", "floordiv"}) =>
        IF HasZero(vr_b) \/ (HasInfinity(vr_a) /\ HasInfinity(vr_b))
        THEN vr_res = NumRange(noo, oo)
        ELSE IsMinMax(vr_res, Corners(vr_op, vr_a, vr_b))

\* a dividend unbounded above divided by a finite positive divisor
C14_Witness ==
    /\ vr_op = "truediv"
    /\ vr_a = NumRange(Integer(-1), oo)
    /\ vr_b = NumRange(Integer(1), Integer(2))
    /\ vr_res = NumRange(Integer(-1), oo)

\* the range convex_min_zero_map(a, x -> x ** e) stands for
EvenPower(a, e) ==
    IF HasZero(a)
    THEN NumRange(Integer(0), MaxV(PowV(a.lower, e), PowV(a.upper, e)))
    ELSE NumRange(MinV(PowV(a.lower, e), PowV(a.upper, e)),
                  MaxV(PowV(a.lower, e), PowV(a.upper, e)))

\* the range increasing_map(a, x -> x ** e) stands for
OddPower(a, e) == NumRange(PowV(a.lower, e), PowV(a.upper, e))

\* what pow(a, b) and pow(reciprocal(a), -b) have in common for every b
PowCommon ==
    /\ ~is_singleton(vr_b) => vr_res = NumRange(noo, oo)
    /\ (is_singleton(vr_b) /\ vr_b.lower[1] < 0)
          => vr_res = pow(reciprocal(vr_a), NumRange(NegV(vr_b.lower), NegV(vr_b.lower)))

\* C15 as stated: unknown() for an exponent that is not a singleton, the
\* singleton 1 for the exponent 0 and every base, pow(reciprocal(a), -b)
\* for a negative exponent, convex_min_zero_map for a positive even
\* exponent and increasing_map for a positive odd one
C15_Original ==
    vr_op = "pow" =>
        /\ PowCommon
        /\ vr_b = NumRange(Integer(0), Integer(0))
              => vr_res = NumRange(Integer(1), Integer(1))
        /\ (is_singleton(vr_b) /\ is_integer(vr_b.lower)
             /\ vr_b.lower[1] > 0 /\ vr_b.lower[1] % 2 = 0)
              => vr_res = EvenPower(vr_a, vr_b.lower[1])
        /\ (is_singleton(vr_b) /\ is_integer(vr_b.lower)
             /\ vr_b.lower[1] > 0 /\ vr_b.lower[1] % 2 = 1)
              => vr_res = OddPower(vr_a, vr_b.lower[1])

\* C15: pow(a, b) is unknown() for an exponent that is not a singleton and
\* equals pow(reciprocal(a), -b) for a negative one; for a singleton base
\* it is the singleton a ** b when that is finite and unknown() when not;
\* for another base it is, with the exponent 0, the singleton 1 when
\* a.lower is finite and unknown() when not, and with a positive exponent
\* unknown() when a is unknown(), else convex_min_zero_map (lower bound 0
\* when 0 is in the base) for an even and increasing_map for an odd one
C15_PowRule ==
    vr_op = "pow" =>
        /\ PowCommon
        /\ (is_singleton(vr_b) /\ is_integer(vr_b.lower) /\ is_singleton(vr_a)) =>
              vr_res = (IF is_finite(PowV(vr_a.lower, vr_b.lower[1]))
                        THEN NumRange(PowV(vr_a.lower, vr_b.lower[1]),
                                      PowV(vr_a.lower, vr_b.lower[1]))
                        ELSE NumRange(noo, oo))
        /\ (vr_b = NumRange(Integer(0), Integer(0)) /\ ~is_singleton(vr_a)) =>
              vr_res = (IF is_finite(vr_a.lower)
                        THEN NumRange(Integer(1), Integer(1))
                        ELSE NumRange(noo, oo))
        /\ (is_singleton(vr_b) /\ is_integer(vr_b.lower)
             /\ vr_b.lower[1] > 0 /\ ~is_singleton(vr_a)) =>
              vr_res = (IF vr_a = NumRange(noo, oo) THEN NumRange(noo, oo)
                        ELSE IF vr_b.lower[1] % 2 = 0
                        THEN EvenPower(vr_a, vr_b.lower[1])
                        ELSE OddPower(vr_a, vr_b.lower[1]))

\* a base of both signs squared: the lower bound is 0
C15_Witness ==
    /\ vr_op = "pow"
    /\ vr_a = NumRange(Integer(-2), Integer(1))
    /\ vr_b = NumRange(Integer(2), Integer(2))
    /\ vr_res = NumRange(Integer(0), Integer(4))

Zero == NumRange(Integer(0), Integer(0))

\* C16: for every numeric range a, unknown() and the ranges with one
\* infinite bound included, mul(a, (0, 0)) and mul((0, 0), a) are (0, 0);
\* no corner product of mul is undefined (0 times an infinity), so that mul
\* returns a range for all numeric operands
C16_MulZero ==
    (vr_op = "mul" /\ ~vr_a.is_bool /\ ~vr_b.is_bool) =>
        /\ (vr_a = Zero \/ vr_b = Zero) => vr_res = Zero
        /\ ~Raised(vr_res)
        /\ \A x \in {vr_a.lower, vr_a.upper}, y \in {vr_b.lower, vr_b.upper} :
              /\ LeV(vr_res.lower, IF x = Integer(0) \/ y = Integer(0)
                                   THEN Integer(0) ELSE MulV(x, y))
              /\ LeV(IF x = Integer(0) \/ y = Integer(0)
                     THEN Integer(0) ELSE MulV(x, y), vr_res.upper)

\* unknown() times the singleton 0
C16_Witness ==
    /\ vr_op = "mul"
    /\ vr_a = NumRange(noo, oo)
    /\ vr_b = Zero
    /\ vr_res = Zero

True1 == BoolRange(sympy_true, sympy_true)
False1 == BoolRange(sympy_false, sympy_false)

\* the comparison named op on two integers
Holds(op, x, y) ==
    CASE op = "ne" -> x # y
      [] op = "lt" -> x < y
      [] op = "le" -> x <= y
      [] op = "gt" -> x > y
      [] op = "ge" -> x >= y

\* C17: on numeric ranges, eq(a, b) is the singleton true exactly when a and
\* b are the same singleton, the singleton false exactly when a and b are
\* disjoint, and (false, true) otherwise; ne, lt, le, gt and ge return a
\* boolean range, and when it is the singleton true (false) the comparison
\* holds (fails) for all x in a and y in b
C17_Comparisons ==
    (~vr_a.is_bool /\ ~vr_b.is_bool) =>
        /\ vr_op = "eq" =>
              /\ vr_res = True1 <=> (vr_a.lower = vr_a.upper /\ vr_b.lower = vr_b.upper
                                     /\ vr_a.lower = vr_b.lower)
              /\ vr_res = False1 <=> Disjoint(vr_a, vr_b)
              /\ vr_res \in {True1, False1, BoolRange(sympy_false, sympy_true)}
        /\ vr_op \in {"ne", "lt", "le", "gt", "ge"} =>
              /\ vr_res \in {True1, False1, BoolRange(sympy_false, sympy_true)}
              /\ vr_res = True1 =>
                    \A x \in Members(vr_a), y \in Members(vr_b) : Holds(vr_op, x, y)
              /\ vr_res = False1 =>
                    \A x \in Members(vr_a), y \in Members(vr_b) : ~Holds(vr_op, x, y)

\* two ranges that share one point: a <= b holds for all their members
C17_Witness ==
    /\ vr_op = "le"
    /\ vr_a = NumRange(Integer(-2), Integer(0))
    /\ vr_b = NumRange(Integer(0), Integer(2))
    /\ vr_res = True1

(***************************************************************************)
(* gradcheck: the gradients the engine returns.                            *)
(***************************************************************************)
\* a gradient that is not None and has an entry that is not zero
NonZero(g) == ~g.none /\ \E k \in 1..Len(g.val) : g.val[k] # Integer(0)

\* a gradient lines 205-213 pass over: None, or all zero with the type and
\* the size of its input
Passes(g) == g.none \/ (~NonZero(g) /\ g.type_ok /\ g.size_ok)

NotMultiplied == gc_result.msg = "backward not multiplied by grad_output"

\* the gradients of the call with zero grad_outputs have been inspected
Inspected == gc_pc = "done" /\ gc_grads # <<>>

\* C18 as stated: the failure 'backward not multiplied by grad_output' is
\* reported iff some gradient of the call with zero grad_outputs is not
\* None and has a non-zero entry
C18_Original ==
    Inspected => (NotMultiplied <=> \E j \in 1..Len(gc_grads) : NonZero(gc_grads[j]))

\* C18: 'backward not multiplied by grad_output' is reported only after
\* every output passed its checks, by the call of grad with zero
\* grad_outputs, and iff some gradient returned by it is not None and has a
\* non-zero entry while every gradient before it is None or is all zero
\* with the type and the size of its input; a gradient that is None is
\* passed over
C18_Linearity ==
    /\ NotMultiplied => (Inspected /\ gc_i = Len(gc_out))
    /\ Inspected =>
          /\ NotMultiplied <=>
                \E j \in 1..Len(gc_grads) :
                    /\ NonZero(gc_grads[j])
                    /\ \A k \in 1..j - 1 : Passes(gc_grads[k])
          /\ NotMultiplied =>
                /\ gc_result.kind = IF gc_raise THEN "RuntimeError" ELSE "False"
                /\ NonZero(gc_grads[gc_result.j + 1])
          /\ (\A j \in 1..Len(gc_grads) : gc_grads[j].none) => gc_result = ReturnTrue

\* the gradient of the first input is None, that of the second is not zero
C18_Witness ==
    /\ Inspected
    /\ Len(gc_grads) = 2
    /\ gc_grads[1].none
    /\ NonZero(gc_grads[2])
    /\ NotMultiplied
    /\ gc_result.j = 1

\* gradient j of the last call of grad inside get_analytical_jacobian is
\* not None and has not the size of its input
WrongSize(g) == ~g.none /\ ~g.size_ok

\* C19: a gradient of the wrong size returned for an output is not written
\* into either jacobian and clears correct_grad_sizes, which stays cleared
\* until the output is judged; the verdict is then the failure 'Analytical
\* gradient has incorrect size' for that output, whatever the tolerance
\* comparison would give
C19_IncorrectSize ==
    [][/\ (gc_pc = "grad" /\ gc_pc' \in {"grad", "reentrant"}) =>
            \A j \in 1..Len(gc_in) :
                WrongSize(gc_grads'[j]) =>
                    /\ ~gc_sizes'
                    /\ gc_jac'[j] = gc_jac[j]
                    /\ gc_jac_re'[j] = gc_jac_re[j]
       /\ (~gc_sizes /\ gc_pc \in {"grad", "reentrant", "numerical"}) =>
            /\ ~gc_sizes'
            /\ gc_pc' \in {"grad", "reentrant", "numerical", "check"}
            /\ gc_i' = gc_i
       /\ (~gc_sizes /\ gc_pc = "check") =>
            /\ gc_pc' = "done"
            /\ gc_result'.msg = "Analytical gradient has incorrect size"
            /\ gc_result'.i = gc_i - 1
            /\ gc_result'.kind = IF gc_raise THEN "RuntimeError" ELSE "False"
      ]_vars

\* the failure was reported for the second output although a jacobian of it
\* is out of tolerance
C19_Witness ==
    /\ gc_pc = "done"
    /\ gc_result.msg = "Analytical gradient has incorrect size"
    /\ gc_result.i = 1
    /\ ~gc_sizes
    /\ \E j \in 1..Len(gc_in) : mismatch(j)

(***************************************************************************)
(* while_loop_node: the calls it rejects.                                  *)
(***************************************************************************)
Calls == {wl_log[k] : k \in 1..Len(wl_log)}

\* pred is a boolean scalar tensor
BooleanScalar(pred) == pred.is_tensor /\ pred.scalar /\ pred.bool

\* body_fn returns a tuple of the length of carried_inputs
BodyFits == wl_body \notin {"not_tuple", "short"}

\* C20: while_loop_node raises before any call of cond_fn when
\* carried_inputs is not a tuple; it raises before the capture of the body
\* is begun when the result of cond_fn on the carried inputs is not a
\* boolean scalar; it fails before any copy into a carried tensor when the
\* result of body_fn is not a tuple of the length of carried_inputs; a call
\* that is rejected returns nothing, and the carried tensors hold the
\* values they had
C20_StructuralErrors ==
    (wl_pc # "start") =>
        /\ ~wl_is_tuple => (wl_pc = "raised" /\ wl_log = <<>>)
        /\ (wl_is_tuple /\ ~BooleanScalar(wl_pred[1])) =>
              /\ wl_pc = "raised"
              /\ wl_log = <<"cond_fn">>
        /\ (wl_is_tuple /\ BooleanScalar(wl_pred[1]) /\ wl_pred[1].is_cuda /\ ~BodyFits) =>
              /\ wl_pc = "raised"
              /\ "body_fn" \in Calls
              /\ "copy_" \notin Calls
        /\ wl_pc = "raised" =>
              /\ wl_err # ""
              /\ "return" \notin Calls
              /\ "set_conditional_handle" \notin Calls
              /\ wl_vals = wl_vals0
              /\ wl_count = 0
        /\ "return" \in Calls =>
              /\ wl_is_tuple /\ BooleanScalar(wl_pred[1]) /\ BooleanScalar(wl_pred[2])
              /\ BodyFits
              /\ wl_err = ""

\* body_fn returned one tensor for two carried inputs: the call failed after
\* body_fn and before a copy
C20_Witness ==
    /\ wl_pc = "raised"
    /\ wl_body = "short"
    /\ Len(wl_vals0) = 2
    /\ "body_fn" \in Calls
    /\ "copy_" \notin Calls
    /\ wl_vals = wl_vals0

(***************************************************************************)
(* ControlFlowOpWarmupDispatchMode                                         *)
(* (torch/_higher_order_ops/cudagraph_conditional_nodes.py, lines 12-81).  *)
(* The scope `with ControlFlowOpWarmupDispatchMode(): body`.  The inner    *)
(* contexts (torch.cuda.graph, set_multithreading_enabled and the dispatch *)
(* mode stack) are the environment of the class: each of their __enter__   *)
(* and __exit__ calls either returns or raises.                            *)
(***************************************************************************)
CaptureModes == {"Global", "ThreadLocal", "Relaxed"}

\* the contexts of __enter__ in the order of lines 34-42
Acquired == <<"capture_mode", "graph_ctx", "autograd_multithreading_disabled",
              "dispatch_mode">>

\* the contexts of __exit__ in the order of lines 51-70
Released == <<"dispatch_mode", "autograd_multithreading_disabled",
              "graph_ctx", "capture_mode">>

Reverse(s) == [i \in 1..Len(s) |-> s[Len(s) + 1 - i]]

IndexOf(s, x) == CHOOSE i \in 1..Len(s) : s[i] = x

\* the calls of a handler made before the call of the context `fail` raises
\* (all of them when fail = "none")
Before(s, fail) ==
    IF fail = "none" THEN s ELSE SubSeq(s, 1, IndexOf(s, fail) - 1)

\* __enter__ (lines 22-43): the capture mode is exchanged for Relaxed, then
\* the three inner contexts are entered; nothing is undone when one raises
enter(mode, fail) ==
    [original |-> mode,
     mode     |-> "Relaxed",
     acq      |-> Before(Acquired, fail),
     exc      |-> IF fail = "none" THEN "none" ELSE "RuntimeError"]

\* __exit__ (lines 45-71): the inner contexts are exited in turn and the
\* capture mode is exchanged back last, with the assertion of line 71 on the
\* mode that was in force; a raising inner __exit__ ends the handler there
exit(mode, original, fail, body_exc) ==
    [mode |-> IF fail = "none" THEN original ELSE mode,
     rel  |-> Before(Released, fail),
     exc  |-> IF fail # "none" THEN "RuntimeError"
              ELSE IF mode # "Relaxed" THEN "AssertionError"
              ELSE body_exc]

InitWM ==
    /\ wm_pc = "out"
    /\ wm_mode0 \in CaptureModes
    /\ wm_mode = wm_mode0
    /\ wm_original = "None"
    /\ wm_acq = <<>>
    /\ wm_rel = <<>>
    /\ wm_ops = 0
    /\ wm_exc = "none"
    /\ IdleVR /\ IdleNJ /\ IdleGC /\ IdleSC /\ IdleWL /\ IdleIE /\ IdleEN
    /\ IdleAM /\ IdleAC /\ IdleAW /\ IdleCM /\ IdleRD /\ IdleCB /\ IdleSY

\* with ControlFlowOpWarmupDispatchMode(): the with statement calls __enter__
\* and, when it raises, does not call __exit__
WM_Enter ==
    /\ wm_pc = "out"
    /\ \E fail \in {"none", "graph_ctx", "autograd_multithreading_disabled",
                    "dispatch_mode"} :
         LET r == enter(wm_mode, fail)
         IN  /\ wm_original' = r.original
             /\ wm_mode' = r.mode
             /\ wm_acq' = r.acq
             /\ wm_exc' = r.exc
             /\ wm_pc' = IF r.exc = "none" THEN "body" ELSE "left"
    /\ UNCHANGED <<wm_mode0, wm_rel, wm_ops, notWM>>

\* __torch_dispatch__ (lines 73-81): an operation of the body runs
WM_Dispatch ==
    /\ wm_pc = "body"
    /\ wm_ops < MaxDispatched
    /\ wm_ops' = wm_ops + 1
    /\ UNCHANGED <<wm_pc, wm_mode0, wm_mode, wm_original, wm_acq, wm_rel,
                   wm_exc, notWM>>

\* the body is over: it completed or raised, and it left the thread in some
\* capture mode (Relaxed when it did not touch the mode)
WM_Body ==
    /\ wm_pc = "body"
    /\ \E m \in CaptureModes, e \in {"none", "Exception"} :
         /\ wm_mode' = m
         /\ wm_exc' = e
    /\ wm_pc' = "exit"
    /\ UNCHANGED <<wm_mode0, wm_original, wm_acq, wm_rel, wm_ops, notWM>>

\* the with statement calls __exit__, with the exception of the body if any
WM_Exit ==
    /\ wm_pc = "exit"
    /\ \E fail \in {"none", "dispatch_mode",
                    "autograd_multithreading_disabled", "graph_ctx"} :
         LET r == exit(wm_mode, wm_original, fail, wm_exc)
         IN  /\ wm_mode' = r.mode
             /\ wm_rel' = r.rel
             /\ wm_exc' = r.exc
    /\ wm_pc' = "left"
    /\ UNCHANGED <<wm_mode0, wm_original, wm_acq, wm_ops, notWM>>

NextWM == WM_Enter \/ WM_Dispatch \/ WM_Body \/ WM_Exit

SpecWM == InitWM /\ [][NextWM]_vars

\* C21: however the scope is left (the body completed, the body raised, or an
\* inner context raised while the scope was entered or exited), the capture
\* mode of the thread is the one in force before __enter__, and the contexts
\* acquired by __enter__ have been released in the reverse order.
C21_ScopedRestoration ==
    wm_pc = "left" =>
        /\ wm_mode = wm_mode0
        /\ wm_rel = Reverse(wm_acq)

\* the part of C21 that the code delivers: when no inner context raises
C21_WhenInnerContextsReturn ==
    (wm_pc = "left" /\ wm_exc # "RuntimeError") =>
        /\ wm_mode = wm_mode0
        /\ wm_rel = Reverse(wm_acq)
        /\ wm_rel = Released

(***************************************************************************)
(* AmpScaler (torch/cuda/amp/amp_scaler.py).  Two optimizers share one     *)
(* scaler.  A gradient is None, an FP32 tensor with finite entries         *)
(* ("finite"), an FP32 tensor with an inf or NaN entry ("inf"), or an FP16 *)
(* tensor ("half"); the gradients are those that backward() leaves in      *)
(* every iteration.  The parameters of an optimizer sit on two devices.    *)
(***************************************************************************)
Optimizers == {"opt_a", "opt_b"}

\* opt_a owns MaxParams parameters, opt_b owns one
NumParams(o) == IF o = "opt_a" THEN MaxParams ELSE 1

GradKinds == {"None", "finite", "inf", "half"}

RECURSIVE ScalerGrads(_)
ScalerGrads(n) ==
    IF n = 0 THEN {<<>>}
    ELSE {Append(g, k) : g \in ScalerGrads(n - 1), k \in GradKinds}

\* param.grad.device: the first parameter is on one device, the others on
\* another
Device(p) == IF p = 1 THEN "cuda:0" ELSE "cuda:1"

\* an entry of self._per_optimizer_states (a defaultdict of dicts): absent,
\* or a dict that may hold "unscaled" and "found_inf_per_device"
NoState == [present |-> FALSE, unscaled |-> FALSE, found |-> <<>>]

EmptyState == [present |-> TRUE, unscaled |-> FALSE, found |-> <<>>]

\* _unscale_grads (lines 117-132): the gradients that are not None are
\* unscaled in parameter order up to the first FP16 gradient, which raises
FirstHalf(g) ==
    IF \E i \in 1..Len(g) : g[i] = "half"
    THEN CHOOSE i \in 1..Len(g) :
             g[i] = "half" /\ \A j \in 1..(i - 1) : g[j] # "half"
    ELSE Len(g) + 1

Unscaled(g) == {i \in 1..(FirstHalf(g) - 1) : g[i] # "None"}

\* torch._amp_unscale_inf_check_ sets the found_inf copy of the gradient's
\* device when the gradient has an inf or NaN entry; the replicator makes a
\* copy for every device it was asked for (lines 15-20)
unscale_grads(g) ==
    [exc   |-> IF FirstHalf(g) <= Len(g) THEN "ValueError" ELSE "none",
     uns   |-> Unscaled(g),
     found |-> [dv \in {Device(i) : i \in Unscaled(g)} |->
                   IF \E i \in Unscaled(g) : Device(i) = dv /\ g[i] = "inf"
                   THEN 1 ELSE 0]]

\* unscale (lines 134-179) on the optimizer's entry st and gradients g
unscale_again(enabled, st, g) ==
    IF ~enabled THEN [exc |-> "none", st |-> st, uns |-> {}]
    ELSE LET r == unscale_grads(g)
         IN  IF r.exc # "none"
             THEN [exc |-> r.exc, st |-> [st EXCEPT !.present = TRUE],
                   uns |-> r.uns]
             ELSE [exc |-> "none",
                   st  |-> [present |-> TRUE, unscaled |-> TRUE,
                            found |-> r.found],
                   uns |-> r.uns]

unscale(enabled, st, g) ==
    IF ~enabled THEN [exc |-> "none", st |-> st, uns |-> {}]
    ELSE IF st.unscaled
    THEN [exc |-> "RuntimeError", st |-> st, uns |-> {}]
    ELSE LET r == unscale_grads(g)
         IN  IF r.exc # "none"
             THEN [exc |-> r.exc, st |-> EmptyState, uns |-> r.uns]
             ELSE [exc |-> "none",
                   st  |-> [present |-> TRUE, unscaled |-> TRUE,
                            found |-> r.found],
                   uns |-> r.uns]

\* sum(v.item() for k, v in found_inf_per_device.items())
FoundSum(found) ==
    Cardinality({dv \in DOMAIN found : found[dv] = 1})

\* step (lines 181-224); ran: optimizer.step() was invoked
step_always(enabled, custom, closure, st, g) ==
    IF ~enabled THEN [exc |-> "none", st |-> st, uns |-> {}, ran |-> TRUE]
    ELSE IF closure
    THEN [exc |-> "RuntimeError", st |-> st, uns |-> {}, ran |-> FALSE]
    ELSE IF custom
    THEN [exc |-> "none", st |-> st, uns |-> {}, ran |-> TRUE]
    ELSE LET u == IF st.unscaled THEN [exc |-> "none", st |-> st, uns |-> {}]
                  ELSE unscale(enabled, st, g)
         IN  IF u.exc # "none"
             THEN [exc |-> u.exc, st |-> u.st, uns |-> u.uns, ran |-> FALSE]
             ELSE IF DOMAIN u.st.found = {}
             THEN [exc |-> "AssertionError", st |-> u.st, uns |-> u.uns,
                   ran |-> FALSE]
             ELSE [exc |-> "none", st |-> u.st, uns |-> u.uns, ran |-> TRUE]

step(enabled, custom, closure, st, g) ==
    IF ~enabled THEN [exc |-> "none", st |-> st, uns |-> {}, ran |-> TRUE]
    ELSE IF closure
    THEN [exc |-> "RuntimeError", st |-> st, uns |-> {}, ran |-> FALSE]
    ELSE IF custom
    THEN [exc |-> "none", st |-> st, uns |-> {}, ran |-> TRUE]
    ELSE LET u == IF st.unscaled THEN [exc |-> "none", st |-> st, uns |-> {}]
                  ELSE unscale(enabled, st, g)
         IN  IF u.exc # "none"
             THEN [exc |-> u.exc, st |-> u.st, uns |-> u.uns, ran |-> FALSE]
             ELSE IF DOMAIN u.st.found = {}
             THEN [exc |-> "AssertionError", st |-> u.st, uns |-> u.uns,
                   ran |-> FALSE]
             ELSE [exc |-> "none", st |-> u.st, uns |-> u.uns,
                   ran |-> FoundSum(u.st.found) = 0]

\* self._scale as the factors applied since it was last set
InitScale == [growth |-> 0, backoff |-> 0]

\* update (lines 226-275) on all the entries; cleared: line 275 was reached
update(enabled, new_scale, states, scale) ==
    IF ~enabled THEN [exc |-> "none", scale |-> scale, cleared |-> FALSE]
    ELSE IF new_scale = "float"
    THEN [exc |-> "none", scale |-> InitScale, cleared |-> TRUE]
    ELSE IF \E o \in Optimizers : states[o].present /\ ~states[o].unscaled
    THEN [exc |-> "KeyError", scale |-> scale, cleared |-> FALSE]
    ELSE IF \A o \in Optimizers : DOMAIN states[o].found = {}
    THEN [exc |-> "AssertionError", scale |-> scale, cleared |-> FALSE]
    ELSE IF \E o \in Optimizers : FoundSum(states[o].found) > 0
    THEN [exc |-> "none", cleared |-> TRUE,
          scale |-> [scale EXCEPT !.backoff = @ + 1]]
    ELSE [exc |-> "none", cleared |-> TRUE,
          scale |-> [scale EXCEPT !.growth = @ + 1]]

\* the configurations of the scaler and its optimizers
Configs ==
    {[enabled |-> TRUE, custom |-> {}],
     [enabled |-> TRUE, custom |-> {"opt_b"}],
     [enabled |-> FALSE, custom |-> {}]}

InitAM ==
    /\ \E c \in Configs :
         /\ am_enabled = c.enabled
         /\ am_custom = [o \in Optimizers |-> o \in c.custom]
    /\ \E ga \in ScalerGrads(NumParams("opt_a")),
          gb \in ScalerGrads(NumParams("opt_b")) :
         am_grad = [o \in Optimizers |-> IF o = "opt_a" THEN ga ELSE gb]
    /\ am_state = [o \in Optimizers |-> NoState]
    /\ am_scale = InitScale
    /\ am_uns = [o \in Optimizers |-> [p \in 1..NumParams(o) |-> 0]]
    /\ am_steps = [o \in Optimizers |-> 0]
    /\ am_last = [op |-> "none", opt |-> "none", closure |-> FALSE,
                  exc |-> "none", ran |-> FALSE]
    /\ am_calls = 0
    /\ IdleVR /\ IdleNJ /\ IdleGC /\ IdleSC /\ IdleWL /\ IdleIE /\ IdleEN
    /\ IdleWM /\ IdleAC /\ IdleAW /\ IdleCM /\ IdleRD /\ IdleCB /\ IdleSY

\* scaler.unscale(o)
AM_Unscale(o) ==
    /\ am_calls < MaxScalerCalls
    /\ LET r == unscale(am_enabled, am_state[o], am_grad[o])
       IN  /\ am_state' = [am_state EXCEPT ![o] = r.st]
           /\ am_uns' = [am_uns EXCEPT ![o] =
                            [p \in 1..NumParams(o) |->
                                IF p \in r.uns THEN @[p] + 1 ELSE @[p]]]
           /\ am_last' = [op |-> "unscale", opt |-> o, closure |-> FALSE,
                          exc |-> r.exc, ran |-> FALSE]
    /\ am_calls' = am_calls + 1
    /\ UNCHANGED <<am_enabled, am_custom, am_grad, am_scale, am_steps, notAM>>

\* scaler.step(o), with or without a closure keyword
AM_Step(o) ==
    /\ am_calls < MaxScalerCalls
    /\ \E closure \in BOOLEAN :
         LET r == step(am_enabled, am_custom[o], closure, am_state[o],
                       am_grad[o])
         IN  /\ am_state' = [am_state EXCEPT ![o] = r.st]
             /\ am_uns' = [am_uns EXCEPT ![o] =
                              [p \in 1..NumParams(o) |->
                                  IF p \in r.uns THEN @[p] + 1 ELSE @[p]]]
             /\ am_steps' = [am_steps EXCEPT ![o] =
                                IF r.ran THEN @ + 1 ELSE @]
             /\ am_last' = [op |-> "step", opt |-> o, closure |-> closure,
                            exc |-> r.exc, ran |-> r.ran]
    /\ am_calls' = am_calls + 1
    /\ UNCHANGED <<am_enabled, am_custom, am_grad, am_scale, notAM>>

\* scaler.update(new_scale); a completed update of an enabled scaler ends the
\* iteration, and the next backward() leaves gradients that were not unscaled
AM_Update ==
    /\ am_calls < MaxScalerCalls
    /\ \E new_scale \in {"None", "float"} :
         LET r == update(am_enabled, new_scale, am_state, am_scale)
         IN  /\ am_scale' = r.scale
             /\ am_state' = IF r.cleared
                            THEN [o \in Optimizers |-> NoState]
                            ELSE am_state
             /\ am_uns' = IF r.cleared
                          THEN [o \in Optimizers |->
                                   [p \in 1..NumParams(o) |-> 0]]
                          ELSE am_uns
             /\ am_steps' = IF r.cleared
                            THEN [o \in Optimizers |-> 0]
                            ELSE am_steps
             /\ am_last' = [op |-> "update", opt |-> "none",
                            closure |-> FALSE, exc |-> r.exc, ran |-> FALSE]
    /\ am_calls' = am_calls + 1
    /\ UNCHANGED <<am_enabled, am_custom, am_grad, notAM>>

NextAM ==
    \/ \E o \in Optimizers : AM_Unscale(o)
    \/ \E o \in Optimizers : AM_Step(o)
    \/ AM_Update

SpecAM == InitAM /\ [][NextAM]_vars

\* the last call was scaler.step(o) of an enabled scaler, without a closure,
\* for an optimizer without step_supports_amp_scaling
SafeStep(o) ==
    /\ am_enabled
    /\ am_last.op = "step"
    /\ am_last.opt = o
    /\ ~am_last.closure
    /\ ~am_custom[o]

NoInf(o) == \A p \in 1..NumParams(o) : am_grad[o][p] # "inf"

UnscaledOnce(o) ==
    \A p \in 1..NumParams(o) :
        am_uns[o][p] = IF am_grad[o][p] = "None" THEN 0 ELSE 1

\* C22: a scaling-safe step(o) that returns has invoked optimizer.step() if
\* and only if no inf/NaN was recorded for o, which is the case if and only if
\* none of o's gradients has an inf/NaN, whatever the other optimizer's
\* gradients and records are; when optimizer.step() runs, every gradient of o
\* has been unscaled exactly once in this iteration, by an explicit unscale(o)
\* or inside step(); a step(o) that raises has not invoked optimizer.step().
C22_ScalingSafeStep ==
    \A o \in Optimizers :
        SafeStep(o) =>
            /\ am_last.exc = "none" =>
                   /\ am_last.ran <=> FoundSum(am_state[o].found) = 0
                   /\ am_last.ran <=> NoInf(o)
            /\ am_last.exc # "none" => ~am_last.ran
            /\ am_last.ran => UnscaledOnce(o)
            /\ am_steps[o] > 0 => UnscaledOnce(o) /\ NoInf(o)

\* opt_a was stepped although opt_b, unscaled before, had found an inf
C22_Witness ==
    /\ SafeStep("opt_a")
    /\ am_last.ran
    /\ am_steps["opt_a"] = 1
    /\ am_state["opt_b"].unscaled
    /\ FoundSum(am_state["opt_b"].found) > 0

\* the step just taken was a call of unscale(o) on an enabled scaler
UnscaleCall(o) ==
    /\ am_enabled
    /\ am_calls' = am_calls + 1
    /\ am_last'.op = "unscale"
    /\ am_last'.opt = o

\* C23: for an enabled scaler, between two update() calls unscale(o) takes
\* effect at most once per optimizer: no gradient is unscaled more than once
\* since the last update() that returned (a further unscale(o) leaves the
\* gradients untouched), and an update() that returns leaves no record and
\* no unscaled gradient.
C23_Original ==
    am_enabled =>
        /\ \A o \in Optimizers :
               \A p \in 1..NumParams(o) : am_uns[o][p] <= 1
        /\ (am_last.op = "update" /\ am_last.exc = "none") =>
               \A o \in Optimizers :
                   /\ am_state[o] = NoState
                   /\ \A p \in 1..NumParams(o) : am_uns[o][p] = 0

\* what holds of the calls that complete: once o is recorded as unscaled (by
\* unscale(o) or inside step(o)), every gradient of o was unscaled exactly
\* once, and a further unscale(o) raises RuntimeError and leaves the
\* gradients and the records of all optimizers as they were; an update()
\* that returns clears the records of all optimizers, after which unscale(o)
\* is carried out again.  An unscale(o) that raises ValueError records
\* nothing and is not held back the next time.
C23_UnscaleOnce ==
    [][/\ \A o \in Optimizers :
             UnscaleCall(o) =>
                 IF am_state[o].unscaled
                 THEN /\ am_last'.exc = "RuntimeError"
                      /\ am_uns' = am_uns
                      /\ am_state' = am_state
                 ELSE /\ am_last'.exc \in {"none", "ValueError"}
                      /\ am_last'.exc = "none" =>
                             /\ am_state'[o].unscaled
                             /\ \A p \in 1..NumParams(o) :
                                    am_uns'[o][p] = am_uns[o][p] +
                                        (IF am_grad[o][p] = "None"
                                         THEN 0 ELSE 1)
       /\ \A o \in Optimizers :
             am_state'[o].unscaled =>
                 \A p \in 1..NumParams(o) :
                     am_uns'[o][p] = IF am_grad[o][p] = "None" THEN 0 ELSE 1
       /\ (am_enabled /\ am_last'.op = "update" /\ am_last'.exc = "none"
              /\ am_calls' = am_calls + 1) =>
             \A o \in Optimizers :
                 /\ am_state'[o] = NoState
                 /\ \A p \in 1..NumParams(o) : am_uns'[o][p] = 0
      ]_vars

\* unscale(o) was refused after a step(o) that had unscaled and stepped
C23_Witness ==
    /\ am_enabled
    /\ am_last.op = "unscale"
    /\ am_last.exc = "RuntimeError"
    /\ am_steps[am_last.opt] = 1
    /\ \E p \in 1..NumParams(am_last.opt) : am_uns[am_last.opt][p] = 1

(***************************************************************************)
(* autocast (torch/cuda/amp/autocast_mode.py).  Two instances, one made    *)
(* with enabled=True and one with enabled=False, are entered and exited in *)
(* properly nested order, each possibly while it is already active (a      *)
(* decorated function that calls itself enters its instance again).        *)
(***************************************************************************)
Instances == {"on", "off"}

\* __init__ (lines 94-100): self._enabled
Enabled(i, cuda) == i = "on" /\ cuda

\* __enter__ (lines 102-105)
autocast_enter(enabled, flag, nesting) ==
    [prev |-> flag, flag |-> enabled, nesting |-> nesting + 1]

\* __exit__ (lines 107-112); cleared: torch.clear_autocast_cache() was called
autocast_exit(prev, nesting) ==
    [flag |-> prev, nesting |-> nesting - 1, cleared |-> nesting - 1 = 0]

InitAC ==
    /\ ac_cuda \in BOOLEAN
    /\ ac_flag \in BOOLEAN
    /\ ac_nesting = 0
    /\ ac_cache = FALSE
    /\ ac_prev = [i \in Instances |-> "None"]
    /\ ac_stack = <<>>
    /\ ac_last = [op |-> "none", before |-> FALSE, cleared |-> FALSE]
    /\ IdleVR /\ IdleNJ /\ IdleGC /\ IdleSC /\ IdleWL /\ IdleIE /\ IdleEN
    /\ IdleWM /\ IdleAM /\ IdleAW /\ IdleCM /\ IdleRD /\ IdleCB /\ IdleSY

\* with i: (or a call of a function decorated with i)
AC_Enter(i) ==
    /\ Len(ac_stack) < MaxNesting
    /\ LET r == autocast_enter(Enabled(i, ac_cuda), ac_flag, ac_nesting)
       IN  /\ ac_prev' = [ac_prev EXCEPT ![i] = r.prev]
           /\ ac_flag' = r.flag
           /\ ac_nesting' = r.nesting
    /\ ac_stack' = Append(ac_stack, [inst |-> i, before |-> ac_flag])
    /\ ac_last' = [op |-> "enter", before |-> ac_flag, cleared |-> FALSE]
    /\ UNCHANGED <<ac_cuda, ac_cache, notAC>>

\* an operation runs in the innermost region; with autocasting enabled its
\* casts are cached
AC_Op ==
    /\ ac_stack # <<>>
    /\ ac_cache' = (ac_cache \/ ac_flag)
    /\ ac_last' = [op |-> "op", before |-> ac_flag, cleared |-> FALSE]
    /\ UNCHANGED <<ac_cuda, ac_flag, ac_nesting, ac_prev, ac_stack, notAC>>

\* the innermost region is left
AC_Exit ==
    /\ ac_stack # <<>>
    /\ LET top == ac_stack[Len(ac_stack)]
           r   == autocast_exit(ac_prev[top.inst], ac_nesting)
       IN  /\ ac_flag' = r.flag
           /\ ac_nesting' = r.nesting
           /\ ac_cache' = (ac_cache /\ ~r.cleared)
           /\ ac_last' = [op |-> "exit", before |-> top.before,
                          cleared |-> r.cleared]
    /\ ac_stack' = SubSeq(ac_stack, 1, Len(ac_stack) - 1)
    /\ UNCHANGED <<ac_cuda, ac_prev, notAC>>

NextAC == (\E i \in Instances : AC_Enter(i)) \/ AC_Op \/ AC_Exit

SpecAC == InitAC /\ [][NextAC]_vars

\* C24: inside a region the flag is the enabled value of the innermost active
\* region; after each __exit__ the flag is the one in force immediately
\* before the matching __enter__; the cache is cleared by an __exit__ exactly
\* when the nesting count has returned to 0.
C24_Nestable ==
    /\ ac_stack # <<>> =>
           ac_flag = Enabled(ac_stack[Len(ac_stack)].inst, ac_cuda)
    /\ ac_last.op = "exit" => ac_flag = ac_last.before
    /\ ac_last.op = "exit" => (ac_last.cleared <=> ac_nesting = 0)
    /\ ac_nesting = Len(ac_stack)

\* the part of C24 that the code delivers: the nesting count is the number of
\* active regions, and the cache is cleared exactly by the __exit__ calls that
\* bring it back to 0
C24_CacheCleared ==
    /\ ac_last.op = "exit" => (ac_last.cleared <=> ac_nesting = 0)
    /\ ac_nesting = Len(ac_stack)
    /\ ac_nesting = 0 => ~ac_cache

(***************************************************************************)
(* AsyncCollectiveTensor (torch/distributed/_functional_collectives.py).   *)
(* A tensor is the result of a collective or a view of an earlier tensor.  *)
(* wait_tensor and the registry of pending work are not part of the file:  *)
(* the model records on which tensors wait_tensor was issued.              *)
(***************************************************************************)
\* the operators dispatched, with the alias annotation of the first argument
\* of their schema
Funcs ==
    {[name |-> "aten.view.default", alias |-> "read"],
     [name |-> "aten.slice.Tensor", alias |-> "read"],
     [name |-> "aten.add.Tensor", alias |-> "none"],
     [name |-> "aten.add_.Tensor", alias |-> "write"]}

\* _is_view_op (lines 320-326)
is_view_op(func) == func.alias = "read"

\* the methods the wrapper overrides (lines 391-411, 454-455)
Methods == {"tolist", "__repr__", "trigger_wait", "wait", "numpy"}

\* which of them read the data after the wait
ReadsData(m) == m \in {"tolist", "__repr__", "numpy"}

\* _maybe_wrap_tensor (lines 541-546)
maybe_wrap_tensor(tracing) ==
    [of |-> 0, waited |-> tracing, wrapped |-> ~tracing]

\* unwrap (lines 429-433) of the wrappers among the arguments: the tensors
\* on which wait_tensor is issued
unwrap_no_wait(func, args) == {}

unwrap(func, args) == IF is_view_op(func) THEN {} ELSE args

\* __torch_dispatch__ (lines 417-452) on the wrapped arguments args, the
\* first of which is first: the tensors waited for, the tensors read by the
\* operator, and whether the output is a wrapped view of the first argument
torch_dispatch(func, first, args) ==
    IF func.name = "aten.view.default"
    THEN [waits |-> {}, reads |-> {}, view |-> TRUE]
    ELSE [waits |-> unwrap(func, args),
          reads |-> IF is_view_op(func) THEN {} ELSE args,
          view  |-> is_view_op(func)]

Wrapped == {t \in 1..Len(aw_tensors) : aw_tensors[t].wrapped}

InitAW ==
    /\ aw_tracing \in BOOLEAN
    /\ aw_tensors = <<>>
    /\ aw_last = [op |-> "none", reads |-> {}, unwaited |-> {},
                  wrapper |-> FALSE, gather_dim |-> 0]
    /\ IdleVR /\ IdleNJ /\ IdleGC /\ IdleSC /\ IdleWL /\ IdleIE /\ IdleEN
    /\ IdleWM /\ IdleAM /\ IdleAC /\ IdleCM /\ IdleRD /\ IdleCB /\ IdleSY

\* a functional collective that returns _maybe_wrap_tensor(tensor):
\* broadcast, all_reduce, reduce_scatter_tensor, all_to_all_single
\* (lines 131-164, 202-231, 339-357)
AW_Collective ==
    /\ Len(aw_tensors) < MaxWrapped
    /\ aw_tensors' = Append(aw_tensors, maybe_wrap_tensor(aw_tracing))
    /\ aw_last' = [op |-> "collective", reads |-> {}, unwaited |-> {},
                   wrapper |-> ~aw_tracing, gather_dim |-> 0]
    /\ UNCHANGED <<aw_tracing, notAW>>

\* the dimensions all_gather_tensor is asked to gather along
GatherDims == {0, 1}

\* all_gather_tensor (lines 167-200): the result of the collective and
\* whether torch.chunk and torch.cat read its data.  With gather_dim # 0 a
\* wrapper is waited for at once and its elem is read, and the tensor that
\* is returned is the plain output of torch.cat
all_gather_tensor(tracing, gather_dim) ==
    LET res == maybe_wrap_tensor(tracing)
    IN  IF gather_dim # 0
        THEN [tensor |-> [of |-> 0, waited |-> res.waited \/ res.wrapped,
                          wrapped |-> FALSE],
              read |-> TRUE]
        ELSE [tensor |-> res, read |-> FALSE]

AW_AllGatherTensor(gather_dim) ==
    /\ Len(aw_tensors) < MaxWrapped
    /\ LET r == all_gather_tensor(aw_tracing, gather_dim)
           t == Len(aw_tensors) + 1
       IN  /\ aw_tensors' = Append(aw_tensors, r.tensor)
           /\ aw_last' = [op |-> "all_gather_tensor",
                          reads |-> IF r.read THEN {t} ELSE {},
                          unwaited |-> IF r.read /\ ~r.tensor.waited
                                       THEN {t} ELSE {},
                          wrapper |-> r.tensor.wrapped,
                          gather_dim |-> gather_dim]
    /\ UNCHANGED <<aw_tracing, notAW>>

\* an operator is dispatched on one or two wrappers
AW_Dispatch(func, first, other) ==
    /\ first \in Wrapped
    /\ other \in Wrapped
    /\ is_view_op(func) => Len(aw_tensors) < MaxWrapped
    /\ LET r == torch_dispatch(func, first, {first, other})
           waited == [t \in 1..Len(aw_tensors) |->
                         [aw_tensors[t] EXCEPT
                             !.waited = @ \/ t \in r.waits]]
       IN  /\ aw_tensors' =
                  IF r.view
                  THEN Append(waited, [of |-> first, waited |-> FALSE,
                                       wrapped |-> TRUE])
                  ELSE waited
           /\ aw_last' = [op |-> func.name, reads |-> r.reads,
                          unwaited |-> {t \in r.reads : ~waited[t].waited},
                          wrapper |-> r.view, gather_dim |-> 0]
    /\ UNCHANGED <<aw_tracing, notAW>>

\* tolist, __repr__, trigger_wait, wait or numpy is called on a wrapper
AW_Method(m, t) ==
    /\ t \in Wrapped
    /\ aw_tensors' = [aw_tensors EXCEPT ![t].waited = TRUE]
    /\ aw_last' = [op |-> m, reads |-> IF ReadsData(m) THEN {t} ELSE {},
                   unwaited |-> {}, wrapper |-> m = "trigger_wait",
                   gather_dim |-> 0]
    /\ UNCHANGED <<aw_tracing, notAW>>

NextAW ==
    \/ AW_Collective
    \/ \E gather_dim \in GatherDims : AW_AllGatherTensor(gather_dim)
    \/ \E func \in Funcs, first, other \in 1..MaxWrapped :
           AW_Dispatch(func, first, other)
    \/ \E m \in Methods, t \in 1..MaxWrapped : AW_Method(m, t)

SpecAW == InitAW /\ [][NextAW]_vars

RECURSIVE RootOf(_)
RootOf(t) == IF aw_tensors[t].of = 0 THEN t ELSE RootOf(aw_tensors[t].of)

\* the last call was a functional collective
Collective(last) == last.op \in {"collective", "all_gather_tensor"}

\* C25 as stated: in eager mode every functional collective returns a
\* wrapper on which no wait was issued, under tracing a tensor on which
\* wait_tensor was issued and no wrapper; no call reads the data of a tensor
\* on which no wait was issued.
C25_Original ==
    /\ aw_last.unwaited = {}
    /\ Collective(aw_last) =>
           LET t == Len(aw_tensors)
           IN  /\ aw_last.wrapper = ~aw_tracing
               /\ aw_tensors[t].wrapped = ~aw_tracing
               /\ aw_tensors[t].waited = aw_tracing

\* C25: in eager mode a collective returns a wrapper on which no wait was
\* issued, except all_gather_tensor with gather_dim # 0, which issues the
\* wait at once, reads the data and returns a plain tensor; under tracing a
\* collective returns a tensor on which wait_tensor was issued and no
\* wrapper; every operation that reads the data of a wrapped tensor (a result
\* or a view of a view ... of a result) runs after wait_tensor was issued on
\* that tensor; a view op issues no wait (the waits are those that were there
\* before it) and returns a new wrapper.
C25_WaitBeforeUse ==
    [][/\ aw_last'.unwaited = {}
       /\ \A t \in aw_last'.reads : aw_tensors'[t].waited
       /\ (Collective(aw_last') /\ aw_last'.gather_dim = 0) =>
              LET t == Len(aw_tensors')
              IN  /\ aw_last'.reads = {}
                  /\ aw_last'.wrapper = ~aw_tracing
                  /\ aw_tensors'[t].wrapped = ~aw_tracing
                  /\ aw_tensors'[t].waited = aw_tracing
       /\ (Collective(aw_last') /\ aw_last'.gather_dim # 0) =>
              LET t == Len(aw_tensors')
              IN  /\ aw_last'.reads = {t}
                  /\ ~aw_last'.wrapper
                  /\ ~aw_tensors'[t].wrapped
                  /\ aw_tensors'[t].waited
       /\ aw_last'.op \in {"aten.view.default", "aten.slice.Tensor"} =>
              /\ aw_last'.wrapper
              /\ aw_last'.reads = {}
              /\ Len(aw_tensors') = Len(aw_tensors) + 1
              /\ aw_tensors'[Len(aw_tensors')].wrapped
              /\ \A t \in 1..Len(aw_tensors) : aw_tensors'[t] = aw_tensors[t]
       /\ aw_tracing' => Wrapped' = {}
      ]_vars

\* an operator that is not a view op read a view of a view of a result, and
\* the wait was issued on it and on no tensor it is a view of
C25_Witness ==
    /\ aw_last.op = "aten.add.Tensor"
    /\ \E t \in aw_last.reads :
           /\ aw_tensors[t].of # 0
           /\ aw_tensors[aw_tensors[t].of].of # 0
           /\ aw_tensors[t].waited
           /\ ~aw_tensors[aw_tensors[t].of].waited
           /\ ~aw_tensors[RootOf(t)].waited

(***************************************************************************)
(* Reordering of compute and communication (torch/_inductor/comms.py).     *)
(* The scheduler nodes are 1..n, numbered in the order of the input        *)
(* schedule; a wait depends on the collective it waits for; costs are the  *)
(* estimated runtimes.  tuple_sorted orders nodes by name, here by number. *)
(***************************************************************************)
RECURSIVE tuple_sorted(_)
tuple_sorted(S) ==
    IF S = {} THEN <<>>
    ELSE LET m == CHOOSE x \in S : \A y \in S : x <= y
         IN  <<m>> \o tuple_sorted(S \ {m})

SeqSet(s) == {s[i] : i \in 1..Len(s)}

\* compute_node_users (lines 281-312): node_users from inverse_users
node_users(deps, v) == {u \in DOMAIN deps : v \in deps[u]}

\* sink_waits (lines 168-189), from position i of snodes on
RECURSIVE sink_loop(_, _, _, _, _, _)
sink_loop(snodes, kind, deps, i, new_order, cur_waits) ==
    IF i > Len(snodes) THEN new_order \o tuple_sorted(cur_waits)
    ELSE IF kind[snodes[i]] = "wait"
    THEN sink_loop(snodes, kind, deps, i + 1, new_order,
                   cur_waits \cup {snodes[i]})
    ELSE LET used == {w \in cur_waits : snodes[i] \in node_users(deps, w)}
         IN  sink_loop(snodes, kind, deps, i + 1,
                       new_order \o tuple_sorted(used) \o <<snodes[i]>>,
                       cur_waits \ used)

sink_waits_at_once(snodes, kind, deps) ==
    [err |-> "none",
     order |-> sink_loop(snodes, kind, [v \in DOMAIN deps |-> {}], 1, <<>>,
                         {})]

sink_waits(snodes, kind, deps) ==
    [err |-> "none", order |-> sink_loop(snodes, kind, deps, 1, <<>>, {})]

\* the while loop of lines 214-218 of raise_comms
RECURSIVE pop_comms(_, _, _, _)
pop_comms(deps, snode, new_order_reversed, cur_comms) ==
    IF cur_comms # <<>>
       /\ \E k \in 1..Len(cur_comms) : snode \in deps[cur_comms[k]]
    THEN pop_comms(deps, snode, Append(new_order_reversed, cur_comms[1]),
                   Tail(cur_comms))
    ELSE [rev |-> new_order_reversed, comms |-> cur_comms]

\* raise_comms (lines 192-222), from position i of snodes down
RECURSIVE raise_loop(_, _, _, _, _, _)
raise_loop(snodes, kind, deps, i, new_order_reversed, cur_comms) ==
    IF i = 0
    THEN IF Len(cur_comms) > 1
         THEN [err |-> "AssertionError", order |-> snodes]
         ELSE [err |-> "none",
               order |-> Reverse(new_order_reversed \o cur_comms)]
    ELSE IF kind[snodes[i]] = "collective"
    THEN raise_loop(snodes, kind, deps, i - 1, new_order_reversed,
                    Append(cur_comms, snodes[i]))
    ELSE IF \E k \in 1..Len(cur_comms) : deps[cur_comms[k]] = {}
    THEN [err |-> "AssertionError", order |-> snodes]
    ELSE LET r == pop_comms(deps, snodes[i], new_order_reversed, cur_comms)
         IN  raise_loop(snodes, kind, deps, i - 1,
                        Append(r.rev, snodes[i]), r.comms)

raise_comms(snodes, kind, deps) ==
    raise_loop(snodes, kind, deps, Len(snodes), <<>>, <<>>)

\* get_ancestors (lines 225-236) and get_descendants (lines 239-250)
RECURSIVE Closure(_, _)
Closure(deps, S) ==
    LET T == S \cup UNION {deps[x] : x \in S}
    IN  IF T = S THEN S ELSE Closure(deps, T)

get_ancestors(node, deps) == Closure(deps, deps[node])

get_descendants(node, deps) ==
    LET users == [v \in DOMAIN deps |-> node_users(deps, v)]
    IN  Closure(users, users[node])

\* the collectives of snodes, in order (lines 335-338)
RECURSIVE CommNodes(_, _)
CommNodes(snodes, kind) ==
    IF snodes = <<>> THEN <<>>
    ELSE IF kind[Head(snodes)] = "collective"
    THEN <<Head(snodes)>> \o CommNodes(Tail(snodes), kind)
    ELSE CommNodes(Tail(snodes), kind)

\* schedule_node (lines 354-367) on the scheduling state st
schedule_node(st, deps, snode) ==
    IF st.err # "none" THEN st
    ELSE IF snode \notin st.unscheduled \/ snode \notin st.ready
    THEN [st EXCEPT !.err = "AssertionError"]
    ELSE LET indeg == [v \in DOMAIN st.indeg |->
                          IF snode \in deps[v] THEN st.indeg[v] - 1
                          ELSE st.indeg[v]]
         IN  [err |-> "none",
              final |-> Append(st.final, snode),
              unscheduled |-> st.unscheduled \ {snode},
              indeg |-> indeg,
              ready |-> (st.ready \ {snode}) \cup
                        {v \in node_users(deps, snode) : indeg[v] = 0}]

\* one round of the for loop of lines 381-385 over the nodes todo
RECURSIVE schedule_round(_, _, _, _)
schedule_round(st, deps, todo, left) ==
    IF todo = <<>> \/ st.err # "none" THEN [st |-> st, left |-> left]
    ELSE IF Head(todo) \in st.ready
    THEN schedule_round(schedule_node(st, deps, Head(todo)), deps,
                        Tail(todo), left \ {Head(todo)})
    ELSE schedule_round(st, deps, Tail(todo), left)

\* schedule_nodes (lines 369-390)
RECURSIVE schedule_nodes(_, _, _)
schedule_nodes(st, deps, all_nodes) ==
    IF st.err # "none" THEN st
    ELSE IF \E v \in all_nodes : v \notin st.unscheduled
    THEN [st EXCEPT !.err = "AssertionError"]
    ELSE IF all_nodes = {} THEN st
    ELSE LET r == schedule_round(st, deps, tuple_sorted(all_nodes),
                                 all_nodes)
         IN  IF r.left = all_nodes
             THEN [st EXCEPT !.err = "AssertionError"]
             ELSE schedule_nodes(r.st, deps, r.left)

RECURSIVE SumCost(_, _)
SumCost(cost, S) ==
    IF S = {} THEN 0
    ELSE LET v == CHOOSE x \in S : TRUE
         IN  cost[v] + SumCost(cost, S \ {v})

\* earliest_comm_descendant (lines 425-429); anc[k] are the ancestors of the
\* k-th collective
earliest_comm_descendant(node, anc) ==
    IF \E k \in 1..Len(anc) : node \in anc[k]
    THEN CHOOSE k \in 1..Len(anc) :
             node \in anc[k] /\ \A j \in 1..(k - 1) : node \notin anc[j]
    ELSE Len(anc) + 1

\* sorted(tuple_sorted(S), key=earliest_comm_descendant) (lines 420-434)
RECURSIVE SortedByNeed(_, _)
SortedByNeed(S, anc) ==
    IF S = {} THEN <<>>
    ELSE LET m == CHOOSE x \in S : \A y \in S :
                      \/ earliest_comm_descendant(x, anc)
                             < earliest_comm_descendant(y, anc)
                      \/ /\ earliest_comm_descendant(x, anc)
                                = earliest_comm_descendant(y, anc)
                         /\ x <= y
         IN  <<m>> \o SortedByNeed(S \ {m}, anc)

\* the for loop of lines 436-452: total is total_compute_runtime_cost, prev
\* is prev_comm_runtime_cost
RECURSIVE overlap_loop(_, _, _, _, _, _)
overlap_loop(st, deps, cost, todo, total, prev) ==
    IF todo = <<>> \/ st.err # "none" \/ total >= prev
    THEN [st |-> st, total |-> total]
    ELSE IF 2 * (prev - total) <= cost[Head(todo)]
    THEN overlap_loop(st, deps, cost, Tail(todo), total, prev)
    ELSE overlap_loop(schedule_node(st, deps, Head(todo)), deps, cost,
                      Tail(todo), total + cost[Head(todo)], prev)

\* the loop of lines 400-474 from the collective idx on
RECURSIVE reorder_loop(_, _, _, _, _, _, _)
reorder_loop(st, kind, deps, cost, comm_nodes, idx, rolled_over) ==
    IF idx > Len(comm_nodes) \/ st.err # "none" THEN st
    ELSE
    LET anc  == [k \in 1..Len(comm_nodes) |->
                    get_ancestors(comm_nodes[k], deps)]
        desc == get_descendants(comm_nodes[idx - 1], deps)
        step1_nodes == st.unscheduled \cap (anc[idx] \ desc)
        step1_cost == rolled_over + SumCost(cost, step1_nodes)
        prev == cost[comm_nodes[idx - 1]]
        st1 == IF \E v \in step1_nodes : kind[v] = "collective"
               THEN [st EXCEPT !.err = "AssertionError"]
               ELSE schedule_nodes(st, deps, step1_nodes)
        ready_compute == st1.ready \ desc
        r2  == IF step1_cost >= prev \/ st1.err # "none"
               THEN [st |-> st1, total |-> step1_cost]
               ELSE IF \E v \in ready_compute : kind[v] = "collective"
               THEN [st |-> [st1 EXCEPT !.err = "AssertionError"],
                     total |-> step1_cost]
               ELSE overlap_loop(st1, deps, cost,
                                 SortedByNeed(ready_compute, anc),
                                 step1_cost, prev)
        step3_nodes == r2.st.unscheduled \cap anc[idx]
        st3 == schedule_nodes(r2.st, deps, step3_nodes)
        st4 == schedule_nodes(st3, deps, {comm_nodes[idx]})
    IN  reorder_loop(st4, kind, deps, cost, comm_nodes, idx + 1,
                     IF step3_nodes # {} THEN 0
                     ELSE r2.total - step1_cost)

\* reorder_compute_for_overlap (lines 315-478)
reorder_compute_for_overlap(snodes, kind, deps, cost) ==
    LET comm_nodes == CommNodes(snodes, kind)
        st0 == [err |-> "none", final |-> <<>>,
                unscheduled |-> SeqSet(snodes),
                indeg |-> [v \in DOMAIN deps |-> Cardinality(deps[v])],
                ready |-> {v \in SeqSet(snodes) : deps[v] = {}}]
    IN  IF comm_nodes = <<>> THEN [err |-> "none", order |-> snodes]
        ELSE LET st1 == schedule_nodes(st0, deps,
                            get_ancestors(comm_nodes[1], deps)
                                \cup {comm_nodes[1]})
                 st2 == reorder_loop(st1, kind, deps, cost, comm_nodes, 2, 0)
                 st3 == schedule_nodes(st2, deps, st2.unscheduled)
             IN  [err |-> st3.err,
                  order |-> IF st3.err = "none" THEN st3.final ELSE snodes]

NodeKinds == {"compute", "collective", "wait"}

\* the dependencies a new node of kind k may have on the nodes of g: a wait
\* depends on one collective; a collective depends on the collective before
\* it (decide_global_ordering_of_comms, lines 253-262) and on at least one
\* node that is not a collective
ValidDeps(g, k) ==
    LET n == Len(g.kind)
        comms == {v \in 1..n : g.kind[v] = "collective"}
    IN  IF k = "wait" THEN {{c} : c \in comms}
        ELSE IF k = "compute" THEN SUBSET (1..n)
        ELSE {d \in SUBSET (1..n) :
                 /\ d \ comms # {}
                 /\ comms # {} =>
                        (CHOOSE c \in comms : \A e \in comms : e <= c) \in d}

\* the schedules of n nodes in dependency order
RECURSIVE Schedules(_)
Schedules(n) ==
    IF n = 0 THEN {[kind |-> <<>>, deps |-> <<>>]}
    ELSE UNION {{[kind |-> Append(g.kind, k), deps |-> Append(g.deps, d)] :
                    d \in ValidDeps(g, k)} :
                g \in Schedules(n - 1), k \in NodeKinds}

\* estimate_op_runtime (lines 269-278): one estimate for the collectives and
\* one for the other nodes
Runtimes == {1, 4}

InitCM ==
    /\ \E n \in 1..MaxSNodes :
         /\ \E g \in Schedules(n) :
              /\ cm_kind = g.kind
              /\ cm_deps = g.deps
         /\ \E comm, other \in Runtimes :
              cm_cost = [v \in 1..n |->
                            IF cm_kind[v] = "collective" THEN comm
                            ELSE other]
         /\ cm_order = [v \in 1..n |-> v]
    /\ cm_err = "none"
    /\ cm_last = "none"
    /\ cm_passes = 0
    /\ IdleVR /\ IdleNJ /\ IdleGC /\ IdleSC /\ IdleWL /\ IdleIE /\ IdleEN
    /\ IdleWM /\ IdleAM /\ IdleAC /\ IdleAW /\ IdleRD /\ IdleCB /\ IdleSY

\* a pass of reorder_compute_and_comm_for_overlap (lines 531-556) returned r
Reordered(name, r) ==
    /\ cm_err = "none"
    /\ cm_passes < MaxPasses
    /\ cm_order' = r.order
    /\ cm_err' = r.err
    /\ cm_last' = name
    /\ cm_passes' = cm_passes + 1
    /\ UNCHANGED <<cm_kind, cm_deps, cm_cost, notCM>>

CM_SinkWaits == Reordered("sink_waits", sink_waits(cm_order, cm_kind, cm_deps))

CM_RaiseComms ==
    Reordered("raise_comms", raise_comms(cm_order, cm_kind, cm_deps))

CM_ReorderCompute ==
    Reordered("reorder_compute_for_overlap",
              reorder_compute_for_overlap(cm_order, cm_kind, cm_deps,
                                          cm_cost))

NextCM == CM_SinkWaits \/ CM_RaiseComms \/ CM_ReorderCompute

SpecCM == InitCM /\ [][NextCM]_vars

\* the position of node v in the current order
Position(v) == CHOOSE i \in 1..Len(cm_order) : cm_order[i] = v

\* C26: every pass ends without an assertion failure, and the order it
\* returns holds every node exactly once, has every node after all the nodes
\* it depends on, and has the collectives in their original relative order.
C26_ValidSchedule ==
    /\ cm_err = "none"
    /\ Len(cm_order) = Len(cm_kind)
    /\ SeqSet(cm_order) = 1..Len(cm_kind)
    /\ \A v \in 1..Len(cm_kind) : \A d \in cm_deps[v] :
           Position(d) < Position(v)
    /\ \A c, e \in 1..Len(cm_kind) :
           (cm_kind[c] = "collective" /\ cm_kind[e] = "collective" /\ c < e)
               => Position(c) < Position(e)

\* a pass has moved nodes of a schedule with a collective and a wait
C26_Witness ==
    /\ cm_passes > 0
    /\ cm_order # [v \in 1..Len(cm_kind) |-> v]
    /\ \E v \in 1..Len(cm_kind) : cm_kind[v] = "wait"

(***************************************************************************)
(* Redistribution of a DTensor (torch/distributed/_tensor/redistribute.py) *)
(* on a one-dimensional mesh.  A tensor is a matrix; the logical tensor of *)
(* a shape has distinct entries, all multiples of Unit so that the         *)
(* division of Replicate -> Partial is exact.  The placement types and the *)
(* collectives they call are not part of the file and follow their         *)
(* documented meaning: _to_replicate_tensor all-gathers the shards,        *)
(* _Partial._to_replicate all-reduces, _Partial._to_shard reduce-scatters, *)
(* and _split_tensor returns the pair (chunks, pad sizes) of torch.chunk.  *)
(***************************************************************************)
MeshSizes == {1, 2, 3}

\* the entries of a logical tensor are multiples of Unit, so that the division
\* of line 131 by a mesh size is exact
Unit == 6

\* the reduce ops of a _Partial placement; two _Partial placements are equal
\* when their reduce ops are
ReduceOps == {"sum", "avg"}

Replicate == [type |-> "Replicate", dim |-> -1, reduce_op |-> "none"]

Partial(reduce_op) == [type |-> "_Partial", dim |-> -1, reduce_op |-> reduce_op]

Shard(d) == [type |-> "Shard", dim |-> d, reduce_op |-> "none"]

Placements ==
    {Replicate, Shard(0), Shard(1)} \cup {Partial(op) : op \in ReduceOps}

Matrix(rows, cols, at) == [rows |-> rows, cols |-> cols, at |-> at]

\* the logical tensor of a shape
Logical(shape) ==
    Matrix(shape[1], shape[2],
           [ij \in (1..shape[1]) \X (1..shape[2]) |->
               Unit * ((ij[1] - 1) * shape[2] + ij[2])])

Size(t, d) == IF d = 0 THEN t.rows ELSE t.cols

\* t[lo:hi] along dimension d (0-based, half-open)
Slice(t, d, lo, hi) ==
    IF d = 0
    THEN Matrix(hi - lo, t.cols,
                [ij \in (1..(hi - lo)) \X (1..t.cols) |->
                    t.at[<<ij[1] + lo, ij[2]>>]])
    ELSE Matrix(t.rows, hi - lo,
                [ij \in (1..t.rows) \X (1..(hi - lo)) |->
                    t.at[<<ij[1], ij[2] + lo>>]])

\* torch.cat((a, b), dim=d)
Cat(a, b, d) ==
    IF d = 0
    THEN Matrix(a.rows + b.rows, a.cols,
                [ij \in (1..(a.rows + b.rows)) \X (1..a.cols) |->
                    IF ij[1] <= a.rows THEN a.at[ij]
                    ELSE b.at[<<ij[1] - a.rows, ij[2]>>]])
    ELSE Matrix(a.rows, a.cols + b.cols,
                [ij \in (1..a.rows) \X (1..(a.cols + b.cols)) |->
                    IF ij[2] <= a.cols THEN a.at[ij]
                    ELSE b.at[<<ij[1], ij[2] - a.cols>>]])

Least(x, y) == IF x <= y THEN x ELSE y

\* Shard._split_tensor(t, n, with_padding=False): the n chunks of torch.chunk
\* along the shard dimension (empty ones at the end when the size does not
\* divide) and their pad sizes
split_tensor(t, n, d) ==
    LET s  == Size(t, d)
        cs == (s + n - 1) \div n
    IN  [shards |-> [k \in 1..n |->
                        Slice(t, d, Least((k - 1) * cs, s),
                              Least(k * cs, s))],
         pad_sizes |-> [k \in 1..n |->
                           cs - (Least(k * cs, s) - Least((k - 1) * cs, s))]]

\* Shard._to_replicate_tensor: the all-gather of the shards of all ranks
RECURSIVE to_replicate_tensor(_, _, _)
to_replicate_tensor(locals, n, d) ==
    IF n = 1 THEN locals[1]
    ELSE Cat(to_replicate_tensor(locals, n - 1, d), locals[n], d)

\* the sum of the local tensors of the first n ranks
RECURSIVE SumOver(_, _)
SumOver(locals, n) ==
    IF n = 1 THEN locals[1]
    ELSE LET rest == SumOver(locals, n - 1)
         IN  Matrix(rest.rows, rest.cols,
                    [ij \in DOMAIN rest.at |-> rest.at[ij] + locals[n].at[ij]])

\* local_tensor / num_chunks
Divided(t, n) ==
    Matrix(t.rows, t.cols, [ij \in DOMAIN t.at |-> t.at[ij] \div n])

\* _Partial._to_replicate: the all-reduce over all ranks with the reduce op
\* of the placement
to_replicate(locals, n, reduce_op) ==
    IF reduce_op = "avg" THEN Divided(SumOver(locals, n), n)
    ELSE SumOver(locals, n)

\* the local tensor of rank k (1-based) of the logical tensor t under
\* placement p on a mesh dimension of size n: the ranks of a _Partial
\* placement hold equal parts that reduce to t
LocalOf(t, p, n, k) ==
    IF p.type = "Replicate" THEN t
    ELSE IF p.type = "_Partial"
    THEN (IF p.reduce_op = "avg" THEN t ELSE Divided(t, n))
    ELSE split_tensor(t, n, p.dim).shards[k]

Tensor2(t) == [kind |-> "Tensor", value |-> t]

\* indexing the pair returned by _split_tensor with my_coordinate
IndexPair(pair, coord) ==
    IF coord = 0 THEN [kind |-> "list of Tensor", value |-> pair.shards]
    ELSE IF coord = 1 THEN [kind |-> "list of int", value |-> pair.pad_sizes]
    ELSE [kind |-> "IndexError", value |-> <<>>]

\* lines 110-127 as the comment of lines 108-109 describes them
shard_to_shard_through_replicate(locals, coord, n, current, target) ==
    Tensor2(split_tensor(to_replicate_tensor(locals, n, current.dim), n,
                         target.dim).shards[coord + 1])

\* lines 110-127: Shard -> Shard
shard_to_shard(locals, coord, n, current, target) ==
    IndexPair(split_tensor(locals[coord + 1], n, target.dim), coord)

\* redistribute_local_tensor (lines 16-137) on a one-dimensional mesh of
\* size n; locals[k] is the local tensor of rank k - 1, local_tensor the one
\* of this rank
redistribute_local_tensor(locals, local_tensor, coord, n, same_mesh, current, target) ==
    IF ~same_mesh THEN [kind |-> "NotImplementedError", value |-> <<>>]
    ELSE IF coord = -1 THEN Tensor2(local_tensor)
    ELSE IF current = target THEN Tensor2(local_tensor)
    ELSE IF target.type = "Replicate"
    THEN IF current.type = "_Partial"
         THEN Tensor2(to_replicate(locals, n, current.reduce_op))
         ELSE Tensor2(to_replicate_tensor(locals, n, current.dim))
    ELSE IF target.type = "Shard"
    THEN IF current.type = "_Partial"
         THEN Tensor2(split_tensor(to_replicate(locals, n, current.reduce_op),
                                   n, target.dim).shards[coord + 1])
         ELSE IF current.type = "Replicate"
         THEN Tensor2(split_tensor(local_tensor, n,
                                   target.dim).shards[coord + 1])
         ELSE shard_to_shard(locals, coord, n, current, target)
    ELSE IF current.type = "Replicate" THEN Tensor2(Divided(local_tensor, n))
    ELSE [kind |-> "RuntimeError", value |-> <<>>]

\* the target placement of Redistribute.backward (lines 191-197)
backward_target_as_forward(current, previous) == previous

backward_target(current, previous) ==
    IF current.type # "_Partial" /\ previous.type = "_Partial"
    THEN Replicate
    ELSE previous

\* the local tensors of all ranks under placement p, and the one of this
\* rank (an empty tensor when the rank is not part of the mesh)
Locals(shape, p, n) == [k \in 1..n |-> LocalOf(Logical(shape), p, n, k)]

Mine(shape, p, n, coord) ==
    IF coord = -1 THEN Matrix(0, 0, <<>>)
    ELSE LocalOf(Logical(shape), p, n, coord + 1)

NoOutput == [kind |-> "none", value |-> <<>>]

InitRD ==
    /\ rd_pc = "input"
    /\ rd_shape \in (1..MaxDim) \X (1..MaxDim)
    /\ rd_mesh \in MeshSizes
    /\ rd_coord \in -1..(rd_mesh - 1)
    /\ rd_same_mesh \in BOOLEAN
    /\ rd_current \in Placements
    /\ rd_target \in Placements
    /\ rd_out = NoOutput
    /\ rd_grad = Replicate
    /\ rd_grad_target = Replicate
    /\ rd_grad_out = NoOutput
    /\ IdleVR /\ IdleNJ /\ IdleGC /\ IdleSC /\ IdleWL /\ IdleIE /\ IdleEN
    /\ IdleWM /\ IdleAM /\ IdleAC /\ IdleAW /\ IdleCM /\ IdleCB /\ IdleSY

\* Redistribute.forward (lines 141-165)
RD_Forward ==
    /\ rd_pc = "input"
    /\ rd_out' = redistribute_local_tensor(
                     Locals(rd_shape, rd_current, rd_mesh),
                     Mine(rd_shape, rd_current, rd_mesh, rd_coord),
                     rd_coord, rd_mesh, rd_same_mesh, rd_current, rd_target)
    /\ rd_pc' = "forward"
    /\ UNCHANGED <<rd_shape, rd_mesh, rd_coord, rd_same_mesh, rd_current,
                   rd_target, rd_grad, rd_grad_target, rd_grad_out, notRD>>

\* Redistribute.backward (lines 167-219) for a grad_output of some placement
\* on the mesh of the input
RD_Backward ==
    /\ rd_pc = "forward"
    /\ rd_out.kind = "Tensor"
    /\ \E g \in Placements :
         LET t == backward_target(g, rd_current)
         IN  /\ rd_grad' = g
             /\ rd_grad_target' = t
             /\ rd_grad_out' = redistribute_local_tensor(
                                   Locals(rd_shape, g, rd_mesh),
                                   Mine(rd_shape, g, rd_mesh, rd_coord),
                                   rd_coord, rd_mesh, TRUE, g, t)
    /\ rd_pc' = "backward"
    /\ UNCHANGED <<rd_shape, rd_mesh, rd_coord, rd_same_mesh, rd_current,
                   rd_target, rd_out, notRD>>

NextRD == RD_Forward \/ RD_Backward

SpecRD == InitRD /\ [][NextRD]_vars

\* forward redistributed Shard(d1) to Shard(d2), d1 # d2, on this rank
ShardToShard ==
    /\ rd_pc # "input"
    /\ rd_same_mesh
    /\ rd_coord # -1
    /\ rd_current.type = "Shard"
    /\ rd_target.type = "Shard"
    /\ rd_current # rd_target

\* C27: the local tensor that a Shard(d1) -> Shard(d2) redistribution
\* produces is the chunk, at this rank's coordinate, of the all-gathered
\* tensor split along d2.
C27_ShardToShard ==
    ShardToShard =>
        rd_out = Tensor2(LocalOf(Logical(rd_shape), rd_target, rd_mesh,
                                 rd_coord + 1))

\* every other redistribution that forward carries out returns the local
\* tensor of the target placement (line 131 divides by the number of chunks
\* whatever the reduce op of the target, which suits a sum)
C27_OtherPlacements ==
    (rd_pc # "input" /\ rd_coord # -1 /\ rd_out.kind = "Tensor"
        /\ ~ShardToShard /\ rd_target # Partial("avg")) =>
        rd_out = Tensor2(LocalOf(Logical(rd_shape), rd_target, rd_mesh,
                                 rd_coord + 1))

\* the gradient and the forward input are _Partial with different reduce ops
PartialMismatch ==
    /\ rd_grad.type = "_Partial"
    /\ rd_current.type = "_Partial"
    /\ rd_grad # rd_current

\* C28 as stated: the target placement of backward is the placement of the
\* forward input, except that it is Replicate where the gradient is not
\* Partial and the forward input was Partial; so backward never redistributes
\* from a placement that is not Partial to Partial, and never raises the 'not
\* supported yet' error of a Partial target.
C28_Original ==
    rd_pc = "backward" =>
        /\ rd_grad_target =
               IF rd_grad.type # "_Partial" /\ rd_current.type = "_Partial"
               THEN Replicate ELSE rd_current
        /\ ~(rd_grad.type # "_Partial" /\ rd_grad_target.type = "_Partial")
        /\ rd_grad_out.kind # "RuntimeError"

\* C28: the target placement of backward is the placement of the forward
\* input, except that it is Replicate where the gradient is not Partial and
\* the forward input was Partial; so backward never redistributes from a
\* placement that is not Partial to Partial; it raises the 'not supported
\* yet' error of a Partial target exactly when the gradient and the forward
\* input are Partial with different reduce ops (on a rank of the mesh), and
\* returns the gradient's local tensor when the two Partial are equal.
C28_BackwardTarget ==
    rd_pc = "backward" =>
        /\ rd_grad_target =
               IF rd_grad.type # "_Partial" /\ rd_current.type = "_Partial"
               THEN Replicate ELSE rd_current
        /\ ~(rd_grad.type # "_Partial" /\ rd_grad_target.type = "_Partial")
        /\ rd_grad_out.kind = "RuntimeError"
               <=> (PartialMismatch /\ rd_coord # -1)
        /\ (rd_grad_target.type = "_Partial" /\ ~PartialMismatch) =>
               rd_grad_out =
                   Tensor2(Mine(rd_shape, rd_grad, rd_mesh, rd_coord))

\* a replicated gradient of a Partial forward input was kept replicated
C28_Witness ==
    /\ rd_pc = "backward"
    /\ rd_current = Partial("sum")
    /\ rd_grad.type = "Replicate"
    /\ rd_grad_target = Replicate
    /\ rd_grad_out.kind = "Tensor"
    /\ rd_mesh > 1

(***************************************************************************)
(* The calls of if_else_node and while_loop_node                           *)
(* (torch/_higher_order_ops/cudagraph_conditional_nodes.py, lines 93-171)  *)
(* when any one of them raises.  A step of a function is a call or a check *)
(* it makes, with the body it is made in: 0 outside the with statements,   *)
(* 1 in the first with block, 2 in the second.                             *)
(***************************************************************************)
Call(call, body) == [call |-> call, body |-> body]

Copies(n, body) == [k \in 1..n |-> Call("copy_", body)]

End == "end_capture_to_conditional_node"

\* if_else_node (lines 103-125) with n outputs per branch
if_else_steps(n) ==
    <<Call("pred.is_cuda", 0),
      Call("begin_capture_to_if_node", 0), Call("true_fn", 1), Call(End, 0),
      Call("logical_not", 0),
      Call("begin_capture_to_if_node", 0), Call("false_fn", 2)>>
    \o Copies(n, 2) \o <<Call(End, 0), Call("assert len(outs) == 2", 0)>>

\* while_loop_node (lines 138-171) with n carried tensors
while_loop_steps(n) ==
    <<Call("isinstance(carried_inputs, tuple)", 0), Call("cond_fn", 0),
      Call("_is_boolean_scalar_cuda_tensor", 0),
      Call("begin_capture_to_while_loop_node", 0), Call("body_fn", 1),
      Call("assert isinstance(out, tuple)", 1),
      Call("assert len(out) == len(carried_inputs)", 1)>>
    \o Copies(n, 1)
    \o <<Call("cond_fn", 1), Call("_is_boolean_scalar_cuda_tensor", 1),
         Call("set_conditional_handle", 1), Call(End, 0)>>

\* _if_body and _while_loop_body (lines 93-100, 128-135): what the context
\* manager does when the step raises: the finally clause ends the capture
\* when the exception comes from the with block
no_finally(raising) == <<>>

finally(raising) ==
    IF raising.body > 0 THEN <<[call |-> End, raised |-> FALSE]>> ELSE <<>>

\* the calls made when step k raises (none when k = 0)
calls(steps, k) ==
    IF k = 0
    THEN [err |-> FALSE,
          log |-> [i \in 1..Len(steps) |->
                      [call |-> steps[i].call, raised |-> FALSE]]]
    ELSE [err |-> TRUE,
          log |-> [i \in 1..k |-> [call |-> steps[i].call, raised |-> i = k]]
                  \o finally(steps[k])]

Steps(node, n) ==
    IF node = "if_else_node" THEN if_else_steps(n) ELSE while_loop_steps(n)

InitCB ==
    /\ cb_fn \in {"if_else_node", "while_loop_node"}
    /\ cb_n \in 1..MaxCopied
    /\ cb_raises \in 0..Len(Steps(cb_fn, cb_n))
    /\ cb_pc = "call"
    /\ cb_log = <<>>
    /\ cb_err = FALSE
    /\ IdleVR /\ IdleNJ /\ IdleGC /\ IdleSC /\ IdleWL /\ IdleIE /\ IdleEN
    /\ IdleWM /\ IdleAM /\ IdleAC /\ IdleAW /\ IdleCM /\ IdleRD /\ IdleSY

\* if_else_node(pred, true_fn, false_fn, operands)
CB_IfElse ==
    /\ cb_pc = "call"
    /\ cb_fn = "if_else_node"
    /\ cb_log' = calls(if_else_steps(cb_n), cb_raises).log
    /\ cb_err' = calls(if_else_steps(cb_n), cb_raises).err
    /\ cb_pc' = "done"
    /\ UNCHANGED <<cb_fn, cb_n, cb_raises, notCB>>

\* while_loop_node(cond_fn, body_fn, carried_inputs, additional_inputs)
CB_WhileLoop ==
    /\ cb_pc = "call"
    /\ cb_fn = "while_loop_node"
    /\ cb_log' = calls(while_loop_steps(cb_n), cb_raises).log
    /\ cb_err' = calls(while_loop_steps(cb_n), cb_raises).err
    /\ cb_pc' = "done"
    /\ UNCHANGED <<cb_fn, cb_n, cb_raises, notCB>>

NextCB == CB_IfElse \/ CB_WhileLoop

SpecCB == InitCB /\ [][NextCB]_vars

IsBegin(e) ==
    e.call \in {"begin_capture_to_if_node", "begin_capture_to_while_loop_node"}

\* the positions of the log where a capture to a conditional node began
Begins == {i \in 1..Len(cb_log) : IsBegin(cb_log[i]) /\ ~cb_log[i].raised}

Ends == {i \in 1..Len(cb_log) : cb_log[i].call = End}

\* C29: when if_else_node or while_loop_node has returned or propagated an
\* exception, every capture that was begun has been ended exactly once: after
\* each begin there is one end before the next begin and before the end of
\* the log; in if_else_node the capture of the true body has ended before the
\* capture of the false body begins.
C29_Bracketed ==
    cb_pc = "done" =>
        /\ \A b \in Begins :
               LET next == IF \E c \in Begins : c > b
                           THEN CHOOSE c \in Begins :
                                    c > b /\ \A x \in Begins : x > b => c <= x
                           ELSE Len(cb_log) + 1
               IN  Cardinality({e \in Ends : b < e /\ e < next}) = 1
        /\ Cardinality(Ends) = Cardinality(Begins)
        /\ \A e \in Ends : \E b \in Begins : b < e

\* the false branch of if_else_node raised after both captures had begun
C29_Witness ==
    /\ cb_pc = "done"
    /\ cb_err
    /\ Cardinality(Begins) = 2
    /\ \E i \in 1..Len(cb_log) :
           cb_log[i].call = "false_fn" /\ cb_log[i].raised

(***************************************************************************)
(* Symbol naming (torch/utils/_sympy/symbol.py).  A string is the sequence *)
(* of its characters.                                                      *)
(***************************************************************************)
\* class SymT (lines 21-53)
SymT == {"SIZE", "FLOAT", "UNBACKED_INT", "UNBACKED_FLOAT", "TMP",
         "INDIRECT", "PRECOMPUTED_SIZE", "INDEX", "RINDEX", "TEMPLATE_INDEX",
         "XBLOCK", "YBLOCK", "VIEW", "HALIDE"}

\* the table of lines 58-76
prefix_str(kind) ==
    CASE kind = "SIZE" -> <<"s">>
      [] kind = "UNBACKED_INT" -> <<"u">>
      [] kind = "FLOAT" -> <<"z", "f">>
      [] kind = "UNBACKED_FLOAT" -> <<"z", "u", "f">>
      [] kind = "TMP" -> <<"t", "m", "p">>
      [] kind = "PRECOMPUTED_SIZE" -> <<"p", "s">>
      [] kind = "INDEX" -> <<"i">>
      [] kind = "RINDEX" -> <<"r">>
      [] kind = "TEMPLATE_INDEX" -> <<"i", "d", "x">>
      [] kind = "XBLOCK" -> <<"x">>
      [] kind = "YBLOCK" -> <<"y">>
      [] kind = "INDIRECT" -> <<"i", "n", "d", "i", "r", "e", "c", "t">>
      [] kind = "VIEW" -> <<"v", "i", "e", "w">>
      [] kind = "HALIDE" -> <<"h">>

DecimalDigits == <<"0", "1", "2", "3", "4", "5", "6", "7", "8", "9">>

\* the decimal representation of a natural number, as f"{idx}" formats it
RECURSIVE Decimal(_)
Decimal(idx) ==
    IF idx < Len(DecimalDigits)
    THEN <<DecimalDigits[idx + 1]>>
    ELSE Decimal(idx \div Len(DecimalDigits))
         \o <<DecimalDigits[(idx % Len(DecimalDigits)) + 1]>>

\* make_symbol with the name made from the kind alone (a table of one prefix)
make_symbol_one_prefix(prefix, idx) ==
    [name |-> <<"s">> \o Decimal(idx), prefix |-> prefix]

\* make_symbol (lines 93-95): a PrefixedSymbol with its name and its kind
make_symbol(prefix, idx) ==
    [name |-> prefix_str(prefix) \o Decimal(idx), prefix |-> prefix]

\* symbol_is_type (lines 100-110) for a single kind
symbol_is_type(sym, prefix) == sym.prefix = prefix

NoSymbol == [name |-> <<>>, prefix |-> "none"]

InitSY ==
    /\ sy_last = NoSymbol
    /\ sy_prev = NoSymbol
    /\ IdleVR /\ IdleNJ /\ IdleGC /\ IdleSC /\ IdleWL /\ IdleIE /\ IdleEN
    /\ IdleWM /\ IdleAM /\ IdleAC /\ IdleAW /\ IdleCM /\ IdleRD /\ IdleCB

\* make_symbol(prefix, idx)
SY_MakeSymbol(prefix, idx) ==
    /\ sy_last' = make_symbol(prefix, idx)
    /\ sy_prev' = sy_last
    /\ UNCHANGED notSY

NextSY == \E prefix \in SymT, idx \in 0..MaxIdx : SY_MakeSymbol(prefix, idx)

SpecSY == InitSY /\ [][NextSY]_vars

\* str.startswith
StartsWith(string, start) ==
    /\ Len(start) <= Len(string)
    /\ SubSeq(string, 1, Len(start)) = start

\* the kinds whose prefix starts the name
KindsOfName(name) == {kind \in SymT : StartsWith(name, prefix_str(kind))}

\* C30: no string of the prefix_str table is a prefix of another string of
\* the table: the prefix of the kind of a symbol that make_symbol has made
\* does not start with the prefix of another kind, so the name of the symbol
\* starts with the prefix of its own kind and of no other kind.
C30_PrefixInvariant ==
    sy_last # NoSymbol =>
        /\ \A kind \in SymT \ {sy_last.prefix} :
               ~StartsWith(prefix_str(sy_last.prefix), prefix_str(kind))
        /\ KindsOfName(sy_last.name) = {sy_last.prefix}

\* what holds of the names: two symbols that make_symbol has made have the
\* same name only when they are of the same kind, and the kind that
\* symbol_is_type reports is the one the symbol was made with
C30_NoCollision ==
    (sy_last # NoSymbol /\ sy_prev # NoSymbol) =>
        /\ sy_last.name = sy_prev.name => sy_last.prefix = sy_prev.prefix
        /\ \A kind \in SymT :
               symbol_is_type(sy_last, kind) <=> kind = sy_last.prefix

=============================================================================
